---------------------------- MODULE Spec2Model ----------------------------
(***************************************************************************)
(* A model of the inter-stage coordination layer of SpectraRAG:            *)
(*   src/src/mcp/message_protocol.py   MCPMessage, MCPMessageBus, registry *)
(*   src/src/mcp/coordinator.py        MCPCoordinator                      *)
(*   src/src/mcp/mcp_agents.py         the four stage services             *)
(*   src/src/utils.py                  cleanup_session_files               *)
(*                                                                         *)
(* Concurrency is asyncio's: one thread, a task runs until it awaits.      *)
(* An action is one run of a task between two suspension points.  Time is  *)
(* discrete: Tick lets one unit pass for every call that is waiting.       *)
(***************************************************************************)
EXTENDS Integers, Sequences, FiniteSets, TLC

VARIABLES
    buses,          \* bus object id -> MCPMessageBus (subscribers, message_history)
    message_buses,  \* the registry: session id -> bus object id
    calls,          \* the send_and_wait_response calls made so far, in start order
    msg_count,      \* MCPMessage objects constructed so far (object identity)
    published,      \* history variable: per bus, the arguments of publish in order
    pub_ret,        \* history variable: message id -> what publish returned for it
    routed,         \* history variable: ids whose receiver had a queue at publish
    hist_result,    \* the last get_message_history call: its arguments and result
    coords,         \* the MCPCoordinator objects (each with its controller), in creation order
    turns,          \* the process_user_query calls made so far, in start order
    sub_log,        \* history variable: the subscribe calls of clients, in order
    handled,        \* history variable: the requests the stage services handled, in order
    vector_db,      \* the directories of the vector DBs: path -> is it there, how often made
    retriever_cache,\* retriever_agent.retriever_cache: retriever_path -> retriever object id
    retrievers,     \* the retriever objects constructed so far, in construction order
    retrievals      \* the runs of the retriever graph so far, in start order

\* the state of the coordinators and their turns
sysVars == <<coords, turns>>
busVars == <<buses, message_buses, calls, msg_count, published, pub_ret, routed, hist_result>>
\* what the clients and the stage services were seen to do
logVars == <<sub_log, handled>>
\* the files and the module-level cache of the retrieval capability
cacheVars == <<vector_db, retriever_cache, retrievers, retrievals>>
vars == <<busVars, sysVars, logVars, cacheVars>>

\* no vector DB, nothing cached, no retrieval yet
InitCache ==
    /\ vector_db = <<>>
    /\ retriever_cache = <<>>
    /\ retrievers = <<>>
    /\ retrievals = <<>>

-----------------------------------------------------------------------------
(* Bounds of the model *)

\* MCPMessage objects constructed in one behaviour
MaxMsgs == 4
\* send_and_wait_response calls started in one behaviour
MaxCalls == 2
\* the deadline of send_and_wait_response in ticks (timeout: float = 30.0, scaled)
TimeoutTicks == 2

\* asyncio.wait_for(response_queue.get(), timeout=1.0)
PollTimeout == 1

-----------------------------------------------------------------------------
(* MCPMessage *)

\* Optional[MCPMessage] = None; also the "no message in hand" value of a call
None == [id |-> 0, sender |-> "", receiver |-> "", type |-> "", trace_id |-> "", payload |-> ""]

\* the dataclass; id is the identity of the Python object
MCPMessage(id, sender, receiver, type, trace_id, payload) ==
    [id |-> id, sender |-> sender, receiver |-> receiver, type |-> type,
     trace_id |-> trace_id, payload |-> payload]

\* Python truthiness of an Optional[str]: None and "" are falsy
NoTrace == "None"
Truthy(trace_id) == trace_id # NoTrace /\ trace_id # ""

-----------------------------------------------------------------------------
(* MCPMessageBus: pure functions from a bus (and arguments) to the new bus *)
(* and the returned value                                                   *)

\* MCPMessageBus.__init__
NewBus(session_id) ==
    [session_id |-> session_id, subscribers |-> <<>>, message_history |-> <<>>]

\* a plausible slip: subscribe always installs a new empty queue
subscribe_fresh(bus, agent_name) ==
    [bus |-> [bus EXCEPT !.subscribers =
                 (agent_name :> <<>>) @@ @],
     created |-> TRUE,
     ret |-> agent_name]

\* subscribe: the queue is created on the first call only. ret names the entry of
\* `self.subscribers` the call returns; created tells whether the call has put a
\* new asyncio.Queue() there, so that the entry is now another object
subscribe(bus, agent_name) ==
    [bus |-> IF agent_name \notin DOMAIN bus.subscribers
                THEN [bus EXCEPT !.subscribers = @ @@ (agent_name :> <<>>)]
                ELSE bus,
     created |-> agent_name \notin DOMAIN bus.subscribers,
     ret |-> agent_name]

\* a plausible slip: the history records only what was delivered
publish_delivered_only(bus, message) ==
    IF message.receiver \in DOMAIN bus.subscribers
        THEN [bus |-> [bus EXCEPT !.message_history = Append(@, message),
                                  !.subscribers[message.receiver] = Append(@, message)],
              ret |-> TRUE]
        ELSE [bus |-> bus, ret |-> FALSE]

\* a plausible slip: only a message without a receiver queue is recorded
publish_log_undelivered(bus, message) ==
    IF message.receiver \in DOMAIN bus.subscribers
        THEN [bus |-> [bus EXCEPT !.subscribers[message.receiver] = Append(@, message)],
              ret |-> TRUE]
        ELSE [bus |-> [bus EXCEPT !.message_history = Append(@, message)], ret |-> FALSE]

\* a plausible slip: an unknown receiver gets a queue created for it
publish_autocreate(bus, message) ==
    LET logged == [bus EXCEPT !.message_history = Append(@, message)]
    IN  IF message.receiver \in DOMAIN bus.subscribers
            THEN [bus |-> [logged EXCEPT !.subscribers[message.receiver] = Append(@, message)],
                  ret |-> TRUE]
            ELSE [bus |-> [logged EXCEPT !.subscribers = @ @@ (message.receiver :> <<message>>)],
                  ret |-> FALSE]

\* a plausible slip: the message is put on every queue of the bus
publish_fanout(bus, message) ==
    LET logged == [bus EXCEPT !.message_history = Append(@, message)]
    IN  IF message.receiver \in DOMAIN bus.subscribers
            THEN [bus |-> [logged EXCEPT !.subscribers =
                              [name \in DOMAIN @ |-> Append(@[name], message)]],
                  ret |-> TRUE]
            ELSE [bus |-> logged, ret |-> FALSE]

\* publish: append to the history, then deliver to the receiver's queue if any
publish(bus, message) ==
    LET logged == [bus EXCEPT !.message_history = Append(@, message)]
    IN  IF message.receiver \in DOMAIN bus.subscribers
            THEN [bus |-> [logged EXCEPT !.subscribers[message.receiver] = Append(@, message)],
                  ret |-> TRUE]
            ELSE [bus |-> logged, ret |-> FALSE]

\* a plausible slip: the filter is inverted
get_message_history_inverted(bus, trace_id) ==
    IF Truthy(trace_id)
        THEN SelectSeq(bus.message_history, LAMBDA msg : msg.trace_id # trace_id)
        ELSE bus.message_history

\* get_message_history: `if trace_id:` filters, anything falsy returns a copy
get_message_history(bus, trace_id) ==
    IF Truthy(trace_id)
        THEN SelectSeq(bus.message_history, LAMBDA msg : msg.trace_id = trace_id)
        ELSE bus.message_history

-----------------------------------------------------------------------------
(* send_and_wait_response: the position of one call *)

\* a plausible slip: a message is taken for the response by its addressee
matches_receiver(response, message) == response.receiver = message.sender

\* a plausible slip: any popped message is taken for the response
matches_any(response, message) == TRUE

\* `if response.trace_id == message.trace_id`
matches(response, message) == response.trace_id = message.trace_id

\* a plausible slip: a mismatched message is dropped
put_back_drop(queue, response) == queue

\* a plausible slip: a mismatched message is put back where it was taken from
put_back_front(queue, response) == <<response>> \o queue

\* `await response_queue.put(response)`: asyncio.Queue.put appends at the tail
put_back(queue, response) == Append(queue, response)

\* a plausible slip: the deadline is never looked at
loop_head_forever(call) == [call EXCEPT !.pc = "wait", !.waited = 0]

\* `while time.time() - start_time < timeout:` then wait_for(...), else return None
loop_head(call) ==
    IF call.elapsed < TimeoutTicks
        THEN [call EXCEPT !.pc = "wait", !.waited = 0]
        ELSE [call EXCEPT !.pc = "done", !.result = None]

\* the call's local state at `start_time = time.time()`
NewCall(b, message) ==
    [bus |-> b, message |-> message, response_queue |-> message.sender,
     pc |-> "wait", elapsed |-> 0, waited |-> 0, held |-> None, result |-> None,
     arrived |-> FALSE]

Range(seq) == {seq[i] : i \in DOMAIN seq}
Ids(queue) == [i \in DOMAIN queue |-> queue[i].id]
Active(c) == calls[c].pc \in {"wait", "got", "timedout"}
QueueOf(c) == buses[calls[c].bus].subscribers[calls[c].response_queue]

\* history variable: the calls for which `message`, put on queue (b, name) now, is a
\* correlated message enqueued before their deadline has elapsed
Arrivals(b, name, message) ==
    {c \in DOMAIN calls :
        /\ Active(c)
        /\ calls[c].bus = b /\ calls[c].response_queue = name
        /\ calls[c].message.trace_id = message.trace_id
        /\ calls[c].elapsed < TimeoutTicks}

\* the history variables after publish(message) on bus b
Logged(b, message, had_queue, ret) ==
    /\ published' = [published EXCEPT ![b] = Append(@, message)]
    /\ pub_ret' = pub_ret @@ (message.id :> ret)
    /\ routed' = IF had_queue THEN routed \cup {message.id} ELSE routed

-----------------------------------------------------------------------------
(* The Bus on its own: any client may subscribe, publish, call and query *)

BusNames == {"CoordinatorAgent", "IngestionAgent"}
BusTraceIds == {"t1", "t2"}
\* correlation ids are opaque tokens: the first one a bus sees is called "t1"
UsableTraceIds(b, ids) ==
    IF \E m \in Range(published[b]) : m.trace_id = "t1" THEN ids ELSE ids \ {"t2"}
NoQuery == [bus |-> 0, trace_id |-> NoTrace, at |-> 0, result |-> <<>>]

InitBus ==
    /\ buses = (1 :> NewBus("s1"))
    /\ message_buses = ("s1" :> 1)
    /\ calls = <<>>
    /\ msg_count = 0
    /\ published = (1 :> <<>>)
    /\ pub_ret = <<>>
    /\ routed = {}
    /\ hist_result = NoQuery
    /\ coords = <<>>
    /\ turns = <<>>
    /\ sub_log = <<>>
    /\ handled = <<>>
    /\ InitCache

\* a stage's or client's `await bus.subscribe(agent_name)`
Subscribe(b, agent_name) ==
    /\ buses' = [buses EXCEPT ![b] = subscribe(@, agent_name).bus]
    /\ UNCHANGED <<message_buses, calls, msg_count, published, pub_ret, routed, hist_result, sysVars, logVars, cacheVars>>

\* a listener's or client's `await bus.publish(message)` of a new message
Publish(b, sender, receiver, trace_id) ==
    /\ msg_count < MaxMsgs
    /\ LET message == MCPMessage(msg_count + 1, sender, receiver, "RESPONSE", trace_id, "")
           out == publish(buses[b], message)
       IN  /\ buses' = [buses EXCEPT ![b] = out.bus]
           /\ Logged(b, message, receiver \in DOMAIN buses[b].subscribers, out.ret)
           /\ calls' = [c \in DOMAIN calls |->
                          IF out.ret /\ c \in Arrivals(b, receiver, message)
                              THEN [calls[c] EXCEPT !.arrived = TRUE] ELSE calls[c]]
    /\ msg_count' = msg_count + 1
    /\ UNCHANGED <<message_buses, hist_result, sysVars, logVars, cacheVars>>

\* send_and_wait_response(message) up to its first wait_for: subscribe the sender,
\* publish the request, take start_time, test the deadline.  No await in these
\* lines suspends (the lock is free, the queue unbounded), so they are one step.
StartCall(b, message) ==
    LET subscribed == subscribe(buses[b], message.sender).bus
        out == publish(subscribed, message)
    IN  /\ buses' = [buses EXCEPT ![b] = out.bus]
        /\ Logged(b, message, message.receiver \in DOMAIN subscribed.subscribers, out.ret)
        /\ calls' = Append([c \in DOMAIN calls |->
                              IF out.ret /\ c \in Arrivals(b, message.receiver, message)
                                  THEN [calls[c] EXCEPT !.arrived = TRUE] ELSE calls[c]],
                           loop_head(NewCall(b, message)))
        /\ msg_count' = msg_count + 1

\* a client's `await bus.send_and_wait_response(message)` with a new request
SendAndWait(b, sender, receiver, trace_id) ==
    /\ msg_count < MaxMsgs
    /\ Len(calls) < MaxCalls
    /\ \A c \in DOMAIN calls : calls[c].pc # "done" => calls[c].message.trace_id # trace_id
    /\ StartCall(b, MCPMessage(msg_count + 1, sender, receiver, "REQUEST", trace_id, ""))
    /\ UNCHANGED <<message_buses, hist_result, sysVars, logVars, cacheVars>>

\* `response_queue.get()` inside wait_for returns the head of the queue
CallGet(c) ==
    /\ calls[c].pc = "wait"
    /\ QueueOf(c) # <<>>
    /\ buses' = [buses EXCEPT ![calls[c].bus].subscribers[calls[c].response_queue] = Tail(@)]
    /\ calls' = [calls EXCEPT ![c].pc = "got", ![c].held = Head(QueueOf(c))]
    /\ UNCHANGED <<message_buses, msg_count, published, pub_ret, routed, hist_result, sysVars, logVars, cacheVars>>

\* the call resumes with the popped message: return it, or put it back and loop
CallResume(c) ==
    /\ calls[c].pc = "got"
    /\ IF matches(calls[c].held, calls[c].message)
          THEN /\ calls' = [calls EXCEPT ![c].pc = "done", ![c].result = calls[c].held,
                                         ![c].held = None]
               /\ UNCHANGED buses
          ELSE /\ buses' = [buses EXCEPT
                              ![calls[c].bus].subscribers[calls[c].response_queue] =
                                  put_back(@, calls[c].held)]
               /\ calls' = [calls EXCEPT ![c] = loop_head([@ EXCEPT !.held = None])]
    /\ UNCHANGED <<message_buses, msg_count, published, pub_ret, routed, hist_result, sysVars, logVars, cacheVars>>

\* the timer of wait_for(..., timeout=1.0) fires while the queue is still empty:
\* the waiting task is cancelled, and will resume with asyncio.TimeoutError
CallPollExpire(c) ==
    /\ calls[c].pc = "wait"
    /\ calls[c].waited >= PollTimeout
    /\ QueueOf(c) = <<>>
    /\ calls' = [calls EXCEPT ![c].pc = "timedout"]
    /\ UNCHANGED <<buses, message_buses, msg_count, published, pub_ret, routed, hist_result, sysVars, logVars, cacheVars>>

\* the task resumes: `except asyncio.TimeoutError: continue`, then the loop test
CallPollTimeout(c) ==
    /\ calls[c].pc = "timedout"
    /\ calls' = [calls EXCEPT ![c] = loop_head(@)]
    /\ UNCHANGED <<buses, message_buses, msg_count, published, pub_ret, routed, hist_result, sysVars, logVars, cacheVars>>

\* one unit of time passes for every call that is between start_time and its return
Ticked(call) ==
    IF call.pc \in {"wait", "got", "timedout"}
        THEN [call EXCEPT
                 !.elapsed = IF @ < TimeoutTicks THEN @ + 1 ELSE @,
                 !.waited = IF call.pc = "wait" /\ @ < PollTimeout THEN @ + 1 ELSE @]
        ELSE call

Tick ==
    /\ calls' = [c \in DOMAIN calls |-> Ticked(calls[c])]
    /\ calls' # calls
    /\ UNCHANGED <<buses, message_buses, msg_count, published, pub_ret, routed, hist_result, sysVars, logVars, cacheVars>>

NextBus ==
    \/ \E b \in DOMAIN buses, n \in BusNames : Subscribe(b, n)
    \/ \E b \in DOMAIN buses : \E t \in UsableTraceIds(b, BusTraceIds) :
          Publish(b, "IngestionAgent", "CoordinatorAgent", t)
    \/ \E b \in DOMAIN buses : \E t \in UsableTraceIds(b, BusTraceIds) :
          SendAndWait(b, "CoordinatorAgent", "IngestionAgent", t)
    \/ \E c \in DOMAIN calls : CallGet(c)
    \/ \E c \in DOMAIN calls : CallResume(c)
    \/ \E c \in DOMAIN calls : CallPollExpire(c)
    \/ \E c \in DOMAIN calls : CallPollTimeout(c)
    \/ Tick

SpecBus == InitBus /\ [][NextBus]_vars

-----------------------------------------------------------------------------
(* Claims about the Bus, checked under SpecBus *)

QueueNames(b) == DOMAIN buses[b].subscribers
Queue(b, name) == buses[b].subscribers[name]
History(b) == buses[b].message_history
\* the position of a message in the history of its bus (0 if it is not in it)
Pos(b, message) ==
    IF message \in Range(History(b))
        THEN CHOOSE i \in DOMAIN History(b) : History(b)[i] = message
        ELSE 0
\* a queue holds its messages in the order in which they were published
InPublishOrder(b, queue) ==
    \A i, j \in DOMAIN queue : i < j => Pos(b, queue[i]) < Pos(b, queue[j])
CallsOn(b, name) == {c \in DOMAIN calls : calls[c].bus = b /\ calls[c].response_queue = name}
Returned(c) == calls[c].pc = "done" /\ calls[c].result # None

\* C2: if a message with the request's correlation id is enqueued on the sender's
\* queue before the deadline has elapsed, the call returns a correlated message
\* (never none), and the returned message is no longer in the sender's queue.
C2_ResponseInTimeIsReturned ==
    \A c \in DOMAIN calls :
        (calls[c].pc = "done" /\ calls[c].arrived) =>
            /\ calls[c].result # None
            /\ calls[c].result.trace_id = calls[c].message.trace_id
            /\ calls[c].result \notin Range(QueueOf(c))

\* C3: every call returns none or a message with the correlation id of its own
\* request, and no message is returned by two calls.
C3_NoSwap ==
    /\ \A c \in DOMAIN calls :
          Returned(c) => calls[c].result.trace_id = calls[c].message.trace_id
    /\ \A c, d \in DOMAIN calls :
          (c # d /\ Returned(c) /\ Returned(d)) => calls[c].result.id # calls[d].result.id
    /\ \A c \in DOMAIN calls :
          Returned(c) => calls[c].result \notin Range(QueueOf(c))

\* two calls of the same sender overlapped (the first returned a message published
\* after the second had started) and both returned their own response
C3_Witness ==
    /\ Len(calls) = 2
    /\ Returned(1) /\ Returned(2)
    /\ calls[1].response_queue = calls[2].response_queue
    /\ calls[1].result.id > calls[2].message.id
    /\ calls[2].result.id < calls[1].result.id

\* C4: no message is lost: the messages delivered to a queue are exactly those
\* still in it, those a call has in hand between pop and put-back, and those
\* calls have returned; a call that has returned has nothing in hand.
C4_NoMessageLost ==
    /\ \A b \in DOMAIN buses : \A name \in QueueNames(b) :
          LET delivered == {m.id : m \in {x \in Range(History(b)) :
                                              x.receiver = name /\ x.id \in routed}}
              queued == {m.id : m \in Range(Queue(b, name))}
              in_hand == {calls[c].held.id : c \in {d \in CallsOn(b, name) : calls[d].pc = "got"}}
              returned == {calls[c].result.id : c \in {d \in CallsOn(b, name) : Returned(d)}}
          IN  /\ Cardinality(queued) = Len(Queue(b, name))
              /\ queued \cup in_hand \cup returned = delivered
              /\ queued \cap in_hand = {} /\ queued \cap returned = {}
              /\ in_hand \cap returned = {}
    /\ \A c \in DOMAIN calls : calls[c].pc = "done" => calls[c].held = None

\* a call has returned none after putting a mismatched message back: two messages
\* that were queued before its request are now in the opposite order
C4_Witness ==
    /\ Len(calls) = 1 /\ calls[1].pc = "done" /\ calls[1].result = None
    /\ \E i, j \in DOMAIN QueueOf(1) :
          /\ i < j
          /\ Pos(1, QueueOf(1)[j]) < Pos(1, QueueOf(1)[i])
          /\ Pos(1, QueueOf(1)[i]) < Pos(1, calls[1].message)

\* C5 as stated: after a call, two messages that were in the sender's queue before
\* the call and remain in it are in the order they were in before.  (With one call
\* only, the queue before it is in publish order and holds what precedes the request.)
C5_OriginalOrderKept ==
    (Len(calls) = 1 /\ calls[1].pc = "done") =>
        \A i, j \in DOMAIN QueueOf(1) :
            (/\ i < j
             /\ Pos(1, QueueOf(1)[i]) < Pos(1, calls[1].message)
             /\ Pos(1, QueueOf(1)[j]) < Pos(1, calls[1].message))
                => Pos(1, QueueOf(1)[i]) < Pos(1, QueueOf(1)[j])

\* C5 amended: a mismatched message is put back at the tail of the queue: the
\* messages that stayed in the queue keep their order and the popped message
\* follows all of them.
C5_PutBackAtTail ==
    [][\A c \in DOMAIN calls :
          (/\ calls[c].pc = "got"
           /\ calls'[c].pc # "got"
           /\ calls[c].held.trace_id # calls[c].message.trace_id)
              => buses'[calls[c].bus].subscribers[calls[c].response_queue]
                    = QueueOf(c) \o <<calls[c].held>>]_vars

\* a put-back has happened behind a message that stayed in the queue
C5_Witness ==
    \E c \in DOMAIN calls :
        /\ calls[c].pc # "got"
        /\ Len(QueueOf(c)) >= 2
        /\ ~InPublishOrder(calls[c].bus, QueueOf(c))

\* C9: the history of a bus is exactly the sequence of the messages passed to
\* publish, in the order the publish calls took effect, each once.
C9_HistoryIsPublishLog ==
    \A b \in DOMAIN buses :
        /\ History(b) = published[b]
        /\ \A i, j \in DOMAIN History(b) : i # j => History(b)[i].id # History(b)[j].id

\* three messages of two senders are in the history, one of them undelivered,
\* and a put-back has reordered a queue
C9_Witness ==
    \E b \in DOMAIN buses :
        /\ Len(History(b)) >= 3
        /\ \E m \in Range(History(b)) : m.id \notin routed
        /\ \E m, n \in Range(History(b)) : m.sender # n.sender
        /\ \E name \in QueueNames(b) : ~InPublishOrder(b, Queue(b, name))

\* C10: publish(m) without a queue for m.receiver returns false, records m,
\* creates no queue and changes no queue; m is in no queue afterwards, also once
\* the receiver has subscribed.
C10_Undelivered ==
    \A b \in DOMAIN buses : \A m \in Range(published[b]) :
        m.id \notin routed =>
            /\ pub_ret[m.id] = FALSE
            /\ m \in Range(History(b))
            /\ \A name \in QueueNames(b) : m \notin Range(Queue(b, name))
            /\ \A c \in DOMAIN calls : calls[c].held # m /\ calls[c].result # m

C10_NoQueueTouched ==
    \A b \in DOMAIN buses :
        (Len(published'[b]) > Len(published[b])
         /\ published'[b][Len(published'[b])].id \notin routed') =>
            LET m == published'[b][Len(published'[b])]
            IN  /\ m.receiver \notin DOMAIN buses'[b].subscribers
                /\ \A name \in DOMAIN buses'[b].subscribers :
                      \/ /\ name \in QueueNames(b)
                         /\ buses'[b].subscribers[name] = Queue(b, name)
                      \/ /\ name = m.sender /\ m.type = "REQUEST"
                         /\ name \notin QueueNames(b)
                         /\ buses'[b].subscribers[name] = <<>>

C10_PublishWithoutQueue == [](C10_Undelivered) /\ [][C10_NoQueueTouched]_vars

\* the receiver of an undelivered message has subscribed since, and has been
\* sent a later message: its queue holds the later one only
C10_Witness ==
    \E b \in DOMAIN buses : \E m \in Range(History(b)) :
        /\ m.id \notin routed
        /\ m.receiver \in QueueNames(b)
        /\ Queue(b, m.receiver) # <<>>

-----------------------------------------------------------------------------
\* the bus b as publish(m) finds it in this step: send_and_wait_response has
\* subscribed the sender of its request just before
BeforePublish(b, m) ==
    IF Len(calls') > Len(calls) THEN subscribe(buses[b], m.sender).bus ELSE buses[b]

\* C11: publish(m) when a queue exists for m.receiver returns true and appends m
\* to the tail of exactly that queue; the set of queues and the contents of every
\* other queue are unchanged (point-to-point delivery, no fan-out).
C11_Delivery ==
    \A b \in DOMAIN buses :
        (Len(published'[b]) > Len(published[b])
         /\ published'[b][Len(published'[b])].id \in routed') =>
            LET m == published'[b][Len(published'[b])]
                before == BeforePublish(b, m).subscribers
                after == buses'[b].subscribers
            IN  /\ m.receiver \in DOMAIN before
                /\ pub_ret'[m.id] = TRUE
                /\ DOMAIN after = DOMAIN before
                /\ after[m.receiver] = Append(before[m.receiver], m)
                /\ \A name \in DOMAIN before \ {m.receiver} : after[name] = before[name]
                /\ \A o \in DOMAIN buses \ {b} : buses'[o] = buses[o]
C11_PointToPoint == [][C11_Delivery]_vars

\* a message was delivered to a queue that already held one, while another
\* queue of the bus held a message too: only the first has the new message
C11_Witness ==
    \E b \in DOMAIN buses : \E m \in Range(published[b]) :
        /\ m.id \in routed
        /\ \E i \in DOMAIN Queue(b, m.receiver) : i > 1 /\ Queue(b, m.receiver)[i] = m
        /\ \E name \in QueueNames(b) \ {m.receiver} :
              Queue(b, name) # <<>> /\ m \notin Range(Queue(b, name))

-----------------------------------------------------------------------------
(* subscribe, called by several clients of one bus in any order.  A call runs *)
(* without suspension (`async with self._lock` finds the lock free, and the   *)
(* body awaits nothing), so the interleavings of concurrent calls are the     *)
(* orders in which the event loop runs them.                                  *)

\* subscribe calls of clients in one behaviour
MaxSubs == 3

\* a client's `await bus.subscribe(agent_name)`; held is what the queue of that
\* name held when the call was made
SubscribeCall(b, agent_name) ==
    /\ Len(sub_log) < MaxSubs
    /\ LET out == subscribe(buses[b], agent_name)
       IN  /\ buses' = [buses EXCEPT ![b] = out.bus]
           /\ sub_log' = Append(sub_log,
                  [bus |-> b, agent_name |-> agent_name, ret |-> out.ret, created |-> out.created,
                   held |-> IF agent_name \in QueueNames(b) THEN Queue(b, agent_name) ELSE <<>>])
    /\ UNCHANGED <<message_buses, calls, msg_count, published, pub_ret, routed, hist_result,
                   sysVars, handled, cacheVars>>

NextSubscribe ==
    \/ \E b \in DOMAIN buses, n \in BusNames : SubscribeCall(b, n)
    \/ \E b \in DOMAIN buses : \E t \in UsableTraceIds(b, BusTraceIds) :
            Publish(b, "IngestionAgent", "CoordinatorAgent", t)
    \/ \E b \in DOMAIN buses : \E t \in UsableTraceIds(b, BusTraceIds) :
            Publish(b, "CoordinatorAgent", "IngestionAgent", t)

SpecSubscribe == InitBus /\ [][NextSubscribe]_vars

\* the subscribe calls made before call i for the same name on the same bus
EarlierCalls(i) ==
    {j \in 1..(i - 1) : sub_log[j].bus = sub_log[i].bus
                        /\ sub_log[j].agent_name = sub_log[i].agent_name}

\* C12: subscribe(name) is idempotent in every order of the calls: all calls for
\* a name on a bus return the same queue, of which exactly one was ever made (by
\* the first call), the messages enqueued on it are kept, and the history and the
\* other queues are unchanged.
C12_OneQueue ==
    \A i \in DOMAIN sub_log :
        /\ sub_log[i].ret = sub_log[i].agent_name
        /\ sub_log[i].created <=> EarlierCalls(i) = {}
C12_CallKeeps ==
    Len(sub_log') > Len(sub_log) =>
        LET e == sub_log'[Len(sub_log')]
        IN  IF e.agent_name \in QueueNames(e.bus)
               THEN buses' = buses
               ELSE buses' = [buses EXCEPT ![e.bus].subscribers = @ @@ (e.agent_name :> <<>>)]
C12_SubscribeIdempotent == [](C12_OneQueue) /\ [][C12_CallKeeps]_vars

\* a name was subscribed again when its queue held a message, and another name
\* was subscribed between the two calls
C12_Witness ==
    \E i, j, k \in DOMAIN sub_log :
        /\ i < k /\ k < j
        /\ i \in EarlierCalls(j)
        /\ sub_log[k].agent_name # sub_log[i].agent_name
        /\ sub_log[j].held # <<>>
        /\ Queue(sub_log[j].bus, sub_log[j].agent_name) # <<>>

(* get_message_history, applied to every history and every argument *)

\* the ids a caller may pass, and messages may carry: "" is a str like any other
HistTraceIds == {"", "t1", "t2"}

\* a client's or listener's publish of a message with any correlation id
PublishAny(b, trace_id) == Publish(b, "IngestionAgent", "CoordinatorAgent", trace_id)

\* `bus.get_message_history(trace_id)`; `at` is the length of the history read
GetMessageHistory(b, trace_id) ==
    /\ hist_result' = [bus |-> b, trace_id |-> trace_id, at |-> Len(History(b)),
                       result |-> get_message_history(buses[b], trace_id)]
    /\ UNCHANGED <<buses, message_buses, calls, msg_count, published, pub_ret, routed, sysVars, logVars, cacheVars>>

NextHistory ==
    \/ \E b \in DOMAIN buses, n \in BusNames : Subscribe(b, n)
    \/ \E b \in DOMAIN buses : \E t \in UsableTraceIds(b, HistTraceIds) : PublishAny(b, t)
    \/ \E b \in DOMAIN buses, t \in HistTraceIds \cup {NoTrace} : GetMessageHistory(b, t)

SpecHistory == InitBus /\ [][NextHistory]_vars

Queried == hist_result.bus # 0
\* the history the last query read (the history only grows)
HistoryRead == SubSeq(History(hist_result.bus), 1, hist_result.at)
IsSubSeq(sub, seq) ==
    /\ Range(sub) \subseteq Range(seq)
    /\ \A i, j \in DOMAIN sub : i < j =>
          \E k, l \in DOMAIN seq : k < l /\ seq[k] = sub[i] /\ seq[l] = sub[j]

C8_StrictSubset ==
    (Queried /\ Truthy(hist_result.trace_id) /\ HistoryRead # <<>>) =>
        /\ Range(hist_result.result) \subseteq Range(HistoryRead)
        /\ Range(hist_result.result) # Range(HistoryRead)

\* C8 amended: history(id) is a subset of the full history, in the same order; for
\* a non-empty id it is a strict subset exactly when the history holds a message
\* with another id, and the full history otherwise.
C8_Subset ==
    Queried =>
        /\ IsSubSeq(hist_result.result, HistoryRead)
        /\ Truthy(hist_result.trace_id) =>
              ((Range(hist_result.result) # Range(HistoryRead))
                  <=> (\E m \in Range(HistoryRead) : m.trace_id # hist_result.trace_id))

\* a query by id returned the whole of a history of two messages
C8_Witness ==
    /\ Queried /\ Truthy(hist_result.trace_id)
    /\ Len(HistoryRead) >= 2
    /\ hist_result.result = HistoryRead

-----------------------------------------------------------------------------
(* Sessions: the registry, the controllers and coordinators the application *)
(* creates, and their turns                                                 *)

\* process_user_query calls started in one behaviour
MaxTurns == 2

Sessions == {"s1", "s2"}
StageNames == {"IngestionAgent", "RetrievalAgent", "LLMResponseAgent", "GeneralAgent"}
\* file_path: None or the uploaded document
NoFile == "None"
FilePaths == {NoFile, "doc.pdf"}
Queries == {"", "__EMBED_ONLY__", "question"}

\* the bus object the module-level name `message_bus` of mcp_agents.py denotes:
\* one object for the whole process, whatever the session
GlobalBus == 0

\* a plausible slip: the token is drawn once, when the module is loaded
Uuid_once(n) == ToString(1)

\* `str(uuid.uuid4())` of the n-th turn: a new token each time
Uuid(n) == ToString(n)

\* a plausible slip: one bus for every session
get_message_bus_shared(session_id) ==
    IF \E s \in DOMAIN message_buses : TRUE
        THEN LET s == CHOOSE s \in DOMAIN message_buses : TRUE
             IN  [registry |-> message_buses @@ (session_id :> message_buses[s]),
                  created |-> FALSE, ret |-> message_buses[s]]
        ELSE [registry |-> message_buses @@ (session_id :> Cardinality(DOMAIN buses)),
              created |-> TRUE, ret |-> Cardinality(DOMAIN buses)]

\* a plausible slip: the bus of an ended session is found again
get_message_bus_reuse(session_id) ==
    IF session_id \in DOMAIN message_buses
        THEN [registry |-> message_buses, created |-> FALSE, ret |-> message_buses[session_id]]
        ELSE IF \E o \in DOMAIN buses : buses[o].session_id = session_id
            THEN LET o == CHOOSE o \in DOMAIN buses : buses[o].session_id = session_id
                 IN  [registry |-> message_buses @@ (session_id :> o),
                      created |-> FALSE, ret |-> o]
            ELSE [registry |-> message_buses @@ (session_id :> Cardinality(DOMAIN buses)),
                  created |-> TRUE, ret |-> Cardinality(DOMAIN buses)]

\* get_message_bus: the session's bus, created and registered on first use
get_message_bus(session_id) ==
    IF session_id \notin DOMAIN message_buses
        THEN [registry |-> message_buses @@ (session_id :> Cardinality(DOMAIN buses)),
              created |-> TRUE, ret |-> Cardinality(DOMAIN buses)]
        ELSE [registry |-> message_buses, created |-> FALSE, ret |-> message_buses[session_id]]

\* no queue yet: `self.message_queue = None`
NoQueue == -1

\* MCPSpectraRagController.__init__ and MCPCoordinator.__init__; the stage
\* services keep their queue as the id of the bus it belongs to; in_hand is the
\* message each listener task has popped and not answered yet, errors the
\* exceptions its listeners have logged (stage, message id), ended the stages
\* whose listener loop has come to an end
NewCoordinator(session_id, bus) ==
    [session_id |-> session_id, message_bus |-> bus, initialized |-> FALSE,
     listeners_started |-> FALSE, listener_tasks |-> 0,
     message_queue |-> [name \in StageNames |-> NoQueue],
     in_hand |-> [name \in StageNames |-> None],
     errors |-> {}, ended |-> {}]

\* the bus each stage service subscribes on in initialize(): `message_bus`
StageBus(coordinator) == GlobalBus

\* the four `await self.<stage>.initialize()` of MCPCoordinator.initialize, on a bus
SubscribeStages(bus) ==
    subscribe(subscribe(subscribe(subscribe(bus, "IngestionAgent").bus, "RetrievalAgent").bus,
                        "LLMResponseAgent").bus, "GeneralAgent").bus

\* a plausible slip: the listeners are started by every initialize()
Initialized_unguarded(coordinator) ==
    [coordinator EXCEPT
        !.initialized = TRUE,
        !.message_queue = [name \in StageNames |-> StageBus(coordinator)],
        !.listeners_started = TRUE,
        !.listener_tasks = @ + 1]

\* MCPCoordinator.initialize, as run by MCPSpectraRagController.initialize
Initialized(coordinator) ==
    [coordinator EXCEPT
        !.initialized = TRUE,
        !.message_queue = [name \in StageNames |-> StageBus(coordinator)],
        !.listeners_started = TRUE,
        !.listener_tasks = IF coordinator.listeners_started THEN @ ELSE @ + 1]

\* a plausible slip: a question without a document goes to the retrieval stage
Pipeline_no_general(file_path, query) ==
    IF Truthy(file_path) /\ query = "__EMBED_ONLY__" THEN "ingestion"
    ELSE IF Truthy(query) THEN "retrieval"
    ELSE "invalid"

\* a plausible slip: an empty query is invalid also when a document is given
Pipeline_needs_query(file_path, query) ==
    IF Truthy(file_path) /\ query = "__EMBED_ONLY__" THEN "ingestion"
    ELSE IF Truthy(file_path) /\ Truthy(query) THEN "retrieval"
    ELSE IF ~Truthy(file_path) /\ Truthy(query) THEN "general"
    ELSE "invalid"

\* the branch process_user_query takes for its arguments
Pipeline(file_path, query) ==
    IF Truthy(file_path) /\ query = "__EMBED_ONLY__" THEN "ingestion"
    ELSE IF Truthy(file_path) /\ query # "__EMBED_ONLY__" THEN "retrieval"
    ELSE IF ~Truthy(file_path) /\ Truthy(query) THEN "general"
    ELSE "invalid"

Receiver(stage) ==
    CASE stage = "ingestion" -> "IngestionAgent"
      [] stage = "retrieval" -> "RetrievalAgent"
      [] stage = "llm" -> "LLMResponseAgent"
      [] stage = "general" -> "GeneralAgent"

RequestType(stage) ==
    CASE stage = "ingestion" -> "INGESTION_REQUEST"
      [] stage = "retrieval" -> "RETRIEVAL_REQUEST"
      [] stage = "llm" -> "LLM_REQUEST"
      [] stage = "general" -> "GENERAL_QUERY_REQUEST"

\* the text of the exception a failed stage raises in process_user_query
Failure(stage, response) ==
    CASE stage = "ingestion" ->
            IF response = None THEN "Ingestion failed: No response" ELSE "Ingestion failed: payload"
      [] stage = "retrieval" ->
            IF response = None THEN "Retrieval failed: No response"
            ELSE IF response.type = "ERROR" THEN "Retrieval failed: payload" ELSE "'num_docs'"
      [] stage = "llm" ->
            IF response = None THEN "LLM processing failed: No response"
            ELSE IF response.type = "ERROR" THEN "LLM processing failed: payload" ELSE "'answer'"
      [] stage = "general" ->
            IF response = None THEN "'NoneType' object has no attribute 'payload'"
                               ELSE "'answer'"

\* the str() of the exceptions that the reads of a response raise: AttributeError
\* on None, KeyError on a payload without the key
LookupErrors == {"'NoneType' object has no attribute 'payload'", "'answer'", "'num_docs'"}

\* a payload that has none of the keys of a response
MalformedPayload == "malformed"

\* does a read of the payload of a response that is not a failure raise KeyError?
\* (`payload['num_docs']`, `payload["answer"]`; the ingestion branch reads with .get)
Unreadable(stage, response) ==
    /\ response # None
    /\ response.payload = MalformedPayload
    /\ stage # "ingestion"

\* a plausible slip: the answering stage is asked without the passages
llm_payload_query_only(query, response) == query

\* the payload of the LLM_REQUEST (its "retrieved_docs"; "query" is the turn's)
llm_payload(query, response) == response.payload

\* a plausible slip: only a missing response counts as a failure
\* the payload of a RETRIEVAL_RESPONSE without passages: `"retrieved_docs": []`
\* and `"num_docs": 0` (the retriever graph went from check_db to finalize)
NoPassages == "no passages"

\* a plausible slip: a retrieval that found nothing counts as a failure
Fails_no_passages(stage, response) ==
    \/ response = None
    \/ response.type = "ERROR"
    \/ stage = "retrieval" /\ response.payload = NoPassages

\* a plausible slip: only an ERROR response counts as a failure, a missing
\* response does not
Fails_error_only(stage, response) == response # None /\ response.type = "ERROR"

Fails_none_only(stage, response) == response = None

\* does process_user_query raise on this response of the stage?
Fails(stage, response) ==
    \/ response = None
    \/ response.type = "ERROR"

NoResult == [keys |-> {}, error |-> "", trace_id |-> "", message_history |-> <<>>, value |-> ""]

\* an exception leaves process_user_query: there is no result
Raised(error) == [NoResult EXCEPT !.error = error, !.value = "raised"]

\* a plausible slip: the except branch names the failures the method raises itself
ErrorResult_own_only(bus, error, trace_id) ==
    IF error \in LookupErrors
        THEN Raised(error)
        ELSE [keys |-> {"error", "trace_id", "message_history"}, error |-> error,
              trace_id |-> trace_id,
              message_history |-> get_message_history(bus, trace_id), value |-> ""]

\* the dict of the `except Exception as e:` branch
ErrorResult(bus, error, trace_id) ==
    [keys |-> {"error", "trace_id", "message_history"}, error |-> error, trace_id |-> trace_id,
     message_history |-> get_message_history(bus, trace_id), value |-> ""]

\* `return {"error": "Invalid input to MCP pipeline.", "trace_id": trace_id}`
InvalidResult(trace_id) ==
    [keys |-> {"error", "trace_id"}, error |-> "Invalid input to MCP pipeline.",
     trace_id |-> trace_id, message_history |-> <<>>, value |-> ""]

\* the dict returned when the last stage of a pipeline has answered
SuccessResult(bus, stage, response, trace_id) ==
    [keys |-> IF stage = "ingestion"
                 THEN {"vector_db_ready", "message", "vector_db_path", "trace_id", "message_history"}
                 ELSE IF stage = "llm"
                     THEN {"answer", "source_context", "trace_id", "message_history"}
                     ELSE {"answer", "trace_id", "message_history"},
     error |-> "", trace_id |-> trace_id,
     message_history |-> get_message_history(bus, trace_id), value |-> response.payload]

\* is a turn of the session still running? (the session's script is inside
\* run_until_complete and does nothing else until the turn returns)
Busy(session_id) ==
    \E t \in DOMAIN turns : turns[t].pc # "done" /\ coords[turns[t].coord].session_id = session_id

Init ==
    /\ buses = (GlobalBus :> NewBus(""))
    /\ message_buses = <<>>
    /\ calls = <<>>
    /\ msg_count = 0
    /\ published = (GlobalBus :> <<>>)
    /\ pub_ret = <<>>
    /\ routed = {}
    /\ hist_result = NoQuery
    /\ coords = <<>>
    /\ turns = <<>>
    /\ sub_log = <<>>
    /\ handled = <<>>
    /\ InitCache

\* One turn of a session up to its first suspension. With k = Len(coords) + 1 the
\* application builds the controller first (MCPCoordinator.__init__ takes the
\* session's bus from the registry), as it does for every turn; with k in
\* DOMAIN coords the controller k is run again. Then controller.run: initialize()
\* on first use, and process_user_query up to the wait of its first request, or to
\* its return for an invalid input.
Run(session_id, k, file_path, query) ==
    /\ Len(turns) < MaxTurns
    /\ ~Busy(session_id)
    /\ k \in DOMAIN coords => coords[k].session_id = session_id
    /\ LET fresh == k \notin DOMAIN coords
           got == get_message_bus(session_id)
           built == IF fresh THEN NewCoordinator(session_id, got.ret) ELSE coords[k]
           coordinator == IF built.initialized THEN built ELSE Initialized(built)
           registered == IF fresh /\ got.created
                             THEN buses @@ (got.ret :> NewBus(session_id)) ELSE buses
           staged == IF built.initialized THEN registered
                     ELSE [registered EXCEPT ![StageBus(coordinator)] = SubscribeStages(@)]
           logs == IF fresh /\ got.created THEN published @@ (got.ret :> <<>>) ELSE published
           trace_id == Uuid(Len(turns) + 1)
           stage == Pipeline(file_path, query)
           b == coordinator.message_bus
       IN  /\ message_buses' = IF fresh THEN got.registry ELSE message_buses
           /\ coords' = IF fresh THEN Append(coords, coordinator)
                                 ELSE [coords EXCEPT ![k] = coordinator]
           /\ IF stage = "invalid"
                 THEN /\ turns' = Append(turns,
                            [coord |-> k, file_path |-> file_path, query |-> query,
                             trace_id |-> trace_id, pc |-> "done", call |-> 0,
                             result |-> InvalidResult(trace_id)])
                      /\ buses' = staged
                      /\ published' = logs
                      /\ UNCHANGED <<calls, msg_count, pub_ret, routed>>
                 ELSE /\ Len(calls) < MaxCalls
                      /\ turns' = Append(turns,
                            [coord |-> k, file_path |-> file_path, query |-> query,
                             trace_id |-> trace_id, pc |-> stage,
                             call |-> Len(calls) + 1, result |-> NoResult])
                      /\ LET message == MCPMessage(msg_count + 1, "CoordinatorAgent", Receiver(stage),
                                                   RequestType(stage), trace_id,
                                                   IF stage = "ingestion" THEN file_path ELSE query)
                             subscribed == subscribe(staged[b], message.sender).bus
                             out == publish(subscribed, message)
                         IN  /\ buses' = [staged EXCEPT ![b] = out.bus]
                             /\ published' = [logs EXCEPT ![b] = Append(@, message)]
                             /\ pub_ret' = pub_ret @@ (message.id :> out.ret)
                             /\ routed' = IF message.receiver \in DOMAIN subscribed.subscribers
                                             THEN routed \cup {message.id} ELSE routed
                             /\ calls' = Append(calls, loop_head(NewCall(b, message)))
                             /\ msg_count' = msg_count + 1
    /\ UNCHANGED <<hist_result, logVars, cacheVars>>

\* process_user_query resumes with the response of its call: the error result,
\* the final result, or (after retrieval) the request to the answering stage
TurnResume(t) ==
    /\ turns[t].pc # "done"
    /\ calls[turns[t].call].pc = "done"
    /\ LET stage == turns[t].pc
           response == calls[turns[t].call].result
           b == coords[turns[t].coord].message_bus
           trace_id == turns[t].trace_id
       IN  IF Fails(stage, response) \/ Unreadable(stage, response)
              THEN /\ turns' = [turns EXCEPT ![t].pc = "done",
                                   ![t].result = ErrorResult(buses[b], Failure(stage, response), trace_id)]
                   /\ UNCHANGED <<buses, calls, msg_count, published, pub_ret, routed>>
              ELSE IF stage = "retrieval"
                  THEN /\ Len(calls) < MaxCalls
                       /\ turns' = [turns EXCEPT ![t].pc = "llm", ![t].call = Len(calls) + 1]
                       /\ StartCall(b, MCPMessage(msg_count + 1, "CoordinatorAgent", Receiver("llm"),
                                                  RequestType("llm"), trace_id,
                                                  llm_payload(turns[t].query, response)))
                  ELSE /\ turns' = [turns EXCEPT ![t].pc = "done",
                                       ![t].result = SuccessResult(buses[b], stage, response, trace_id)]
                       /\ UNCHANGED <<buses, calls, msg_count, published, pub_ret, routed>>
    /\ UNCHANGED <<message_buses, hist_result, coords, logVars, cacheVars>>

\* f"DATA/vector_db_{session_id}" and f"DATA/retriever_cache_{session_id}"
vector_db_path(session_id) == <<"DATA/vector_db_", session_id>>
retriever_path(session_id) == <<"DATA/retriever_cache_", session_id>>

\* `if os.path.exists(path): shutil.rmtree(path)`
rmtree(dirs, path) ==
    IF path \in DOMAIN dirs THEN [dirs EXCEPT ![path].exists = FALSE] ELSE dirs

\* cleanup_session_files: the vector DB of the session is removed from the disk
\* and `del message_buses[session_id]`; retriever_cache is not touched (the
\* directory named retriever_path, which nothing creates, is removed if there)
CleanupSession(session_id) ==
    /\ ~Busy(session_id)
    /\ message_buses' = [s \in DOMAIN message_buses \ {session_id} |-> message_buses[s]]
    /\ vector_db' = rmtree(vector_db, vector_db_path(session_id))
    /\ UNCHANGED <<buses, calls, msg_count, published, pub_ret, routed, hist_result, coords, turns,
                   logVars, retriever_cache, retrievers, retrievals>>

Next ==
    \/ \E s \in Sessions, f \in FilePaths, q \in Queries : Run(s, Len(coords) + 1, f, q)
    \/ \E k \in DOMAIN coords, f \in FilePaths, q \in Queries : Run(coords[k].session_id, k, f, q)
    \/ \E c \in DOMAIN calls : CallPollExpire(c)
    \/ \E c \in DOMAIN calls : CallPollTimeout(c)
    \/ \E t \in DOMAIN turns : TurnResume(t)
    \/ \E s \in Sessions : CleanupSession(s)
    \/ Tick

Spec == Init /\ [][Next]_vars

\* time passes, and the event loop of a session runs every task that is ready
Fairness ==
    /\ WF_vars(Tick)
    /\ \A c \in 1..MaxCalls : WF_vars(c \in DOMAIN calls /\ CallPollExpire(c))
    /\ \A c \in 1..MaxCalls : WF_vars(c \in DOMAIN calls /\ CallPollTimeout(c))
    /\ \A t \in 1..MaxTurns : WF_vars(t \in DOMAIN turns /\ TurnResume(t))

\* the turns of the sessions, each with the new controller the application builds
\* for it, and nothing else
LiveNext ==
    \/ \E s \in Sessions, f \in FilePaths, q \in Queries : Run(s, Len(coords) + 1, f, q)
    \/ \E c \in DOMAIN calls : CallPollExpire(c)
    \/ \E c \in DOMAIN calls : CallPollTimeout(c)
    \/ \E t \in DOMAIN turns : TurnResume(t)
    \/ Tick

LiveSpec == Init /\ [][LiveNext]_vars /\ Fairness

\* the correlation ids of the turns coordinated for a session
TraceIdsOf(session_id) ==
    {turns[t].trace_id : t \in {u \in DOMAIN turns : coords[turns[u].coord].session_id = session_id}}
\* everything held by the queues of bus b
Queued(b) == UNION {Range(Queue(b, name)) : name \in QueueNames(b)}
\* what coordinator k and its stage services can see: the history and the queues
\* of its bus, and the queues its stage services obtained in initialize()
Visible(k) ==
    Range(History(coords[k].message_bus))
        \cup Queued(coords[k].message_bus)
        \cup UNION {Range(Queue(coords[k].message_queue[name], name)) :
                        name \in {n \in StageNames : coords[k].message_queue[n] # NoQueue}}

\* C1: session isolation: a message published while coordinating one session is
\* never in the history of another session's bus nor in a queue that a stage
\* service or the coordinator of another session reads from, the queues obtained
\* in initialize() included.
C1_SessionIsolation ==
    \A k \in DOMAIN coords : \A t \in DOMAIN turns :
        coords[turns[t].coord].session_id # coords[k].session_id
            => \A m \in Visible(k) : m.trace_id # turns[t].trace_id
\* two sessions have both been coordinated, with initialized stage services, and
\* each has published a request
C1_Witness ==
    \E k1, k2 \in DOMAIN coords :
        /\ coords[k1].session_id # coords[k2].session_id
        /\ coords[k1].initialized /\ coords[k2].initialized
        /\ \A n \in StageNames : coords[k1].message_queue[n] # NoQueue
        /\ \E m \in Range(History(coords[k1].message_bus)) :
              m.trace_id \in TraceIdsOf(coords[k1].session_id)
        /\ \E m \in Range(History(coords[k2].message_bus)) :
              m.trace_id \in TraceIdsOf(coords[k2].session_id)

\* the turn has sent a request and waits for (or has got) the outcome of its call
Started(t) == t \in DOMAIN turns /\ turns[t].call # 0
\* a correlated message reached the sender's queue in time
Answered(t) == Started(t) /\ calls[turns[t].call].arrived
\* the call of the turn returned None at or after the deadline, and the turn
\* ended with an error result that carries the turn's correlation id
TimedOut(t) ==
    /\ Started(t)
    /\ calls[turns[t].call].pc = "done"
    /\ calls[turns[t].call].result = None
    /\ calls[turns[t].call].elapsed >= TimeoutTicks
    /\ turns[t].pc = "done"
    /\ {"error", "trace_id"} \subseteq turns[t].result.keys
    /\ turns[t].result.trace_id = turns[t].trace_id
    /\ turns[t].result.error # ""
\* every request of a call is in the history of its bus exactly once
PublishedOnce ==
    \A c \in DOMAIN calls :
        Cardinality({i \in DOMAIN History(calls[c].bus) :
                        History(calls[c].bus)[i].id = calls[c].message.id}) = 1
\* None is returned only when the deadline has elapsed
NoneAtDeadline ==
    \A c \in DOMAIN calls :
        calls[c].pc = "done" /\ calls[c].result = None => calls[c].elapsed >= TimeoutTicks

\* C6: when no message with the request's correlation id is ever published to
\* the sender, send_and_wait_response ends and returns None once the deadline has
\* elapsed, without ever publishing the request again, and the turn of the
\* coordinator then ends with an error result containing the turn's correlation id.
C6_TimeoutIsError ==
    /\ [](PublishedOnce /\ NoneAtDeadline)
    /\ \A t \in 1..MaxTurns : Started(t) ~> (TimedOut(t) \/ Answered(t))
\* a turn whose request nobody answered has ended with the error result
C6_Witness ==
    \E t \in DOMAIN turns : TimedOut(t) /\ ~Answered(t)

\* C13: a stage service is constructed with a session identifier and initialize()
\* subscribes its name to that session's bus: after initialize() the queue the
\* service has cached is the queue registered under its name in the bus of its
\* own session (and a second initialize() yields that same queue).
C13_StageQueueOnSessionBus ==
    \A k \in DOMAIN coords :
        coords[k].initialized =>
            \A name \in StageNames :
                /\ coords[k].message_queue[name] = coords[k].message_bus
                /\ name \in QueueNames(coords[k].message_bus)
                /\ buses[coords[k].message_bus].session_id = coords[k].session_id

-----------------------------------------------------------------------------
(* The stage services and their listener tasks.  A request reaches a stage   *)
(* through the queue the stage subscribed in initialize(); its listener pops  *)
(* it, has the stage handle it and publishes what the stage returns on the    *)
(* bus of its coordinator.                                                    *)

\* requests handled by stage services in one behaviour
MaxHandled == 2

\* what the external capability of a stage does with a request: it raises an
\* Exception, or returns a value
Raises == "raises"
Outcomes == {Raises, "value"}
\* the senders of requests, and the trace_id each gives to the requests of its turn
Clients == {"CoordinatorAgent", "Client"}
TraceOf(sender) == IF sender = "CoordinatorAgent" THEN "t1" ELSE "t2"

Stage(agent_name) ==
    CASE agent_name = "IngestionAgent" -> "ingestion"
      [] agent_name = "RetrievalAgent" -> "retrieval"
      [] agent_name = "LLMResponseAgent" -> "llm"
      [] agent_name = "GeneralAgent" -> "general"

\* the type of the message a stage returns when its capability has returned
ResponseType(agent_name) ==
    CASE agent_name = "IngestionAgent" -> "INGESTION_RESPONSE"
      [] agent_name = "RetrievalAgent" -> "RETRIEVAL_RESPONSE"
      [] agent_name = "LLMResponseAgent" -> "LLM_RESPONSE"
      [] agent_name = "GeneralAgent" -> "GENERAL_QUERY_RESPONSE"

\* the outcome of handling a request: the exception that leaves the method (none
\* here) and the message it returns
NoException == "no exception"

\* a plausible slip: no try/except around the capability
handle_unguarded(agent_name, message, outcome, id) ==
    IF outcome = Raises
        THEN [exception |-> "Exception", ret |-> None]
        ELSE [exception |-> NoException,
              ret |-> MCPMessage(id, agent_name, message.sender, ResponseType(agent_name),
                                 message.trace_id, outcome)]

\* a plausible slip: the error message is addressed like the request
handle_error_unswapped(agent_name, message, outcome, id) ==
    [exception |-> NoException,
     ret |-> IF outcome = Raises
                THEN MCPMessage(id, message.sender, message.receiver, "ERROR",
                                message.trace_id, "error")
                ELSE MCPMessage(id, agent_name, message.sender, ResponseType(agent_name),
                                message.trace_id, outcome)]

\* process_ingestion_request, process_retrieval_request, process_llm_request,
\* process_general_query: try: run the capability and build the response;
\* except Exception: build the ERROR message
handle(agent_name, message, outcome, id) ==
    [exception |-> NoException,
     ret |-> IF outcome = Raises
                THEN MCPMessage(id, agent_name, message.sender, "ERROR",
                                message.trace_id, "error")
                ELSE MCPMessage(id, agent_name, message.sender, ResponseType(agent_name),
                                message.trace_id, outcome)]

\* do the lines between the listener's queue.get() and its publish suspend?
\* (`await ...ainvoke(...)` in retrieval and general, `.invoke(...)` in the others)
Suspends(agent_name) == agent_name \in {"RetrievalAgent", "GeneralAgent"}

\* controller.initialize() of the first controller of the session: the coordinator
\* takes the session's bus, the stages subscribe, the listener tasks are started
Initialize(session_id) ==
    /\ \A k \in DOMAIN coords : coords[k].session_id # session_id
    /\ LET got == get_message_bus(session_id)
           coordinator == Initialized(NewCoordinator(session_id, got.ret))
           registered == IF got.created THEN buses @@ (got.ret :> NewBus(session_id)) ELSE buses
       IN  /\ message_buses' = got.registry
           /\ coords' = Append(coords, coordinator)
           /\ buses' = [registered EXCEPT ![StageBus(coordinator)] = SubscribeStages(@)]
           /\ published' = IF got.created THEN published @@ (got.ret :> <<>>) ELSE published
    /\ UNCHANGED <<calls, msg_count, pub_ret, routed, hist_result, turns, logVars, cacheVars>>

\* a client publishes a request of the stage's kind on bus b
Request(b, agent_name, sender, trace_id) ==
    /\ msg_count < MaxMsgs
    /\ Len(published[b]) < MaxHandled
    /\ LET message == MCPMessage(msg_count + 1, sender, agent_name,
                                 RequestType(Stage(agent_name)), trace_id, "request")
           out == publish(buses[b], message)
       IN  /\ buses' = [buses EXCEPT ![b] = out.bus]
           /\ Logged(b, message, agent_name \in DOMAIN buses[b].subscribers, out.ret)
    /\ msg_count' = msg_count + 1
    /\ UNCHANGED <<message_buses, calls, hist_result, sysVars, logVars, cacheVars>>

\* `response = await process_method(message)` and `await self.message_bus.publish(response)`
\* of the listener of stage agent_name of coordinator k, from the buses `from`;
\* an exception that leaves process_method is logged by the listener, which goes on
Respond(k, agent_name, message, outcome, from) ==
    LET b == coords[k].message_bus
        done == handle(agent_name, message, outcome, msg_count + 1)
        out == publish(from[b], done.ret)
    IN  /\ handled' = Append(handled, [agent_name |-> agent_name, request |-> message,
                                       outcome |-> outcome, exception |-> done.exception,
                                       response |-> done.ret])
        /\ IF done.exception = NoException
              THEN /\ buses' = [from EXCEPT ![b] = out.bus]
                   /\ Logged(b, done.ret, done.ret.receiver \in DOMAIN from[b].subscribers, out.ret)
                   /\ calls' = [c \in DOMAIN calls |->
                                  IF out.ret /\ c \in Arrivals(b, done.ret.receiver, done.ret)
                                      THEN [calls[c] EXCEPT !.arrived = TRUE] ELSE calls[c]]
                   /\ msg_count' = msg_count + 1
              ELSE /\ buses' = from
                   /\ UNCHANGED <<published, pub_ret, routed, calls, msg_count>>

\* the members of the enum MCPMessageType
MCPMessageType ==
    {"INGESTION_REQUEST", "INGESTION_RESPONSE", "RETRIEVAL_REQUEST", "RETRIEVAL_RESPONSE",
     "CONTEXT_REQUEST", "CONTEXT_RESPONSE", "LLM_REQUEST", "LLM_RESPONSE",
     "GENERAL_QUERY_REQUEST", "GENERAL_QUERY_RESPONSE", "ERROR"}

\* a type that is not a member of the enum: a plain string
NotAType == "str"

\* does message.to_dict() return? (`self.type.value` raises AttributeError on a
\* type that is not an enum member)
to_dict_returns(message) == message.type \in MCPMessageType

\* a plausible slip: the try is around the loop, an exception ends the listener
except_Exception_outside(coordinator, agent_name, message) ==
    [coordinator EXCEPT !.errors = @ \cup {<<agent_name, message.id>>},
                        !.ended = @ \cup {agent_name}]

\* `except Exception as e: logging.error(...)` inside `while True:`: the
\* exception is logged and the loop goes to its next round
except_Exception(coordinator, agent_name, message) ==
    [coordinator EXCEPT !.errors = @ \cup {<<agent_name, message.id>>}]

\* a plausible slip: the ingestion listener handles whatever it gets
Skips_never(agent_name, message) == FALSE

\* `if agent.agent_name == "IngestionAgent" and message.type !=
\* MCPMessageType.INGESTION_REQUEST: continue`
Skips(agent_name, message) ==
    agent_name = "IngestionAgent" /\ message.type # "INGESTION_REQUEST"

\* a plausible slip: the listener reads the head of the queue and leaves it there
queue_get_peek(queue) == queue

\* `message = await agent.message_queue.get()`: the head leaves the queue
queue_get(queue) == Tail(queue)

\* the listener of a stage of coordinator k gets a message from the stage's queue;
\* the ingestion listener skips what is not an INGESTION_REQUEST; a stage whose
\* method does not suspend answers in the same run of the task; the logging of
\* message.to_dict() comes first, and its exception is caught by the loop
ListenerGet(k, agent_name, outcome) ==
    /\ coords[k].listener_tasks > 0
    /\ agent_name \notin coords[k].ended
    /\ coords[k].in_hand[agent_name] = None
    /\ msg_count < MaxMsgs
    /\ Len(handled) < MaxHandled
    /\ LET q == coords[k].message_queue[agent_name]
           message == Head(Queue(q, agent_name))
           popped == [buses EXCEPT ![q].subscribers[agent_name] = queue_get(@)]
       IN  /\ Queue(q, agent_name) # <<>>
           /\ IF Skips(agent_name, message)
                 THEN /\ buses' = popped
                      /\ UNCHANGED <<coords, calls, msg_count, published, pub_ret, routed, handled>>
                 ELSE IF ~to_dict_returns(message)
                     THEN /\ buses' = popped
                          /\ coords' = [coords EXCEPT ![k] = except_Exception(@, agent_name, message)]
                          /\ UNCHANGED <<calls, msg_count, published, pub_ret, routed, handled>>
                     ELSE IF Suspends(agent_name)
                         THEN /\ buses' = popped
                              /\ coords' = [coords EXCEPT ![k].in_hand[agent_name] = message]
                              /\ UNCHANGED <<calls, msg_count, published, pub_ret, routed, handled>>
                         ELSE /\ Respond(k, agent_name, message, outcome, popped)
                              /\ UNCHANGED coords
    /\ UNCHANGED <<message_buses, hist_result, turns, sub_log, cacheVars>>

\* the capability of a suspending stage ends: the listener publishes the response
ListenerHandle(k, agent_name, outcome) ==
    /\ coords[k].in_hand[agent_name] # None
    /\ msg_count < MaxMsgs
    /\ Respond(k, agent_name, coords[k].in_hand[agent_name], outcome, buses)
    /\ coords' = [coords EXCEPT ![k].in_hand[agent_name] = None]
    /\ UNCHANGED <<message_buses, hist_result, turns, sub_log, cacheVars>>

NextStage ==
    \/ \E s \in Sessions : Initialize(s)
    \/ \E n \in StageNames, c \in Clients : Request(GlobalBus, n, c, TraceOf(c))
    \/ \E k \in DOMAIN coords, n \in StageNames, o \in Outcomes : ListenerGet(k, n, o)
    \/ \E k \in DOMAIN coords, n \in StageNames, o \in Outcomes : ListenerHandle(k, n, o)

SpecStage == Init /\ [][NextStage]_vars

\* C14: the method of a stage that handles a request never lets an exception out:
\* whenever the capability raises for a request, the method returns a message of
\* type ERROR whose payload carries the description of the error.
C14_NeverPropagates ==
    \A i \in DOMAIN handled :
        /\ handled[i].exception = NoException
        /\ handled[i].response # None
        /\ handled[i].outcome = Raises =>
              /\ handled[i].response.type = "ERROR"
              /\ handled[i].response.payload = "error"
\* the capabilities of the ingestion and of the general stage have both raised
C14_Witness ==
    \E i, j \in DOMAIN handled :
        /\ handled[i].agent_name = "IngestionAgent" /\ handled[i].outcome = Raises
        /\ handled[j].agent_name = "GeneralAgent" /\ handled[j].outcome = Raises

\* the response type the protocol pairs with a request type
PairedResponse(type) ==
    CASE type = "INGESTION_REQUEST" -> "INGESTION_RESPONSE"
      [] type = "RETRIEVAL_REQUEST" -> "RETRIEVAL_RESPONSE"
      [] type = "LLM_REQUEST" -> "LLM_RESPONSE"
      [] type = "GENERAL_QUERY_REQUEST" -> "GENERAL_QUERY_RESPONSE"
      [] OTHER -> "none"

-----------------------------------------------------------------------------
(* The turns of the coordinators with stages that answer: the request of a   *)
(* call is handled by the stage it names, and the listener publishes what the *)
(* stage returns on the bus of the coordinator, at any time after the request *)
(* was published (also after the call has given up).  The turns are those of  *)
(* one session, one after the other.                                          *)

\* has the request of call c been handled?
Replied(c) == \E i \in DOMAIN handled : handled[i].request = calls[c].message

\* the stage named by the request of call c handles it and its listener
\* publishes the response
Reply(c, outcome) ==
    /\ ~Replied(c)
    /\ Len(handled) < MaxHandled
    /\ \E t \in DOMAIN turns :
          /\ turns[t].trace_id = calls[c].message.trace_id
          /\ Respond(turns[t].coord, calls[c].message.receiver, calls[c].message, outcome, buses)
    /\ UNCHANGED <<message_buses, hist_result, sysVars, sub_log, cacheVars>>

\* turns of the session in one behaviour
MaxAnswered == MaxTurns - 1

\* a turn of session s1 with the new controller the application builds for it
RunTurn(file_path, query) ==
    /\ Len(turns) < MaxAnswered
    /\ Run("s1", Len(coords) + 1, file_path, query)

NextTurn ==
    \/ \E f \in FilePaths, q \in Queries : RunTurn(f, q)
    \/ \E c \in DOMAIN calls, o \in Outcomes : Reply(c, o)
    \/ \E c \in DOMAIN calls : CallGet(c)
    \/ \E c \in DOMAIN calls : CallResume(c)
    \/ \E c \in DOMAIN calls : CallPollExpire(c)
    \/ \E c \in DOMAIN calls : CallPollTimeout(c)
    \/ \E t \in DOMAIN turns : TurnResume(t)
    \/ Tick

SpecTurn == Init /\ [][NextTurn]_vars

\* the bus of the coordinator of turn t, and what its history holds for the turn
TurnBus(t) == coords[turns[t].coord].message_bus
Trace(t) == SelectSeq(History(TurnBus(t)), LAMBDA m : m.trace_id = turns[t].trace_id)
Types(seq) == [i \in DOMAIN seq |-> seq[i].type]
Count(seq, type) == Cardinality({i \in DOMAIN seq : seq[i].type = type})
\* the input shapes of a turn
EmbedOnly(t) == Truthy(turns[t].file_path) /\ turns[t].query = "__EMBED_ONLY__"
DocumentQA(t) == Truthy(turns[t].file_path) /\ turns[t].query # "__EMBED_ONLY__"
GeneralQA(t) == ~Truthy(turns[t].file_path) /\ turns[t].query # ""
InvalidInput(t) == ~Truthy(turns[t].file_path) /\ turns[t].query = ""

\* C16: an embed-only turn (document path present, query "__EMBED_ONLY__") leaves
\* in the history, for its trace_id, exactly one pair INGESTION_REQUEST /
\* INGESTION_RESPONSE and no retrieval, answering or general message.
C16_EmbedOnlyPair ==
    \A t \in DOMAIN turns :
        EmbedOnly(t) /\ turns[t].pc = "done" =>
            Types(Trace(t)) = <<"INGESTION_REQUEST", "INGESTION_RESPONSE">>

\* the calls made for turn t with a request of the given type
CallsOf(t, type) ==
    {c \in DOMAIN calls : calls[c].message.trace_id = turns[t].trace_id
                          /\ calls[c].message.type = type}
\* the call has returned a response that is not an ERROR
Succeeded(c) ==
    calls[c].pc = "done" /\ calls[c].result # None /\ calls[c].result.type # "ERROR"
\* the LLM_REQUEST messages of turn t
Answering(t) == {m \in Range(Trace(t)) : m.type = "LLM_REQUEST"}

\* C17: a document-QA turn (document path present, query not the sentinel)
\* publishes exactly one retrieval request; it publishes exactly one answering
\* request if the retrieval response is not an ERROR, and none otherwise; the
\* answering request carries the passages of that retrieval response, and the
\* final result is the answer and the context of the answering response.
C17_DocumentQA ==
    \A t \in DOMAIN turns :
        DocumentQA(t) =>
            /\ Count(Trace(t), "RETRIEVAL_REQUEST") = 1
            /\ Cardinality(CallsOf(t, "RETRIEVAL_REQUEST")) = 1
            /\ \A c \in CallsOf(t, "RETRIEVAL_REQUEST") :
                  IF Succeeded(c) /\ turns[t].pc # "retrieval"
                     THEN /\ Count(Trace(t), "LLM_REQUEST") = 1
                          /\ \A m \in Answering(t) :
                                /\ m.payload = calls[c].result.payload
                                /\ m.receiver = "LLMResponseAgent"
                                /\ m.id > calls[c].result.id
                     ELSE Answering(t) = {}
            /\ \A c \in CallsOf(t, "LLM_REQUEST") :
                  Succeeded(c) /\ turns[t].pc = "done" =>
                      /\ turns[t].result.keys = {"answer", "source_context", "trace_id",
                                                 "message_history"}
                      /\ turns[t].result.value = calls[c].result.payload
                      /\ calls[c].result.type = "LLM_RESPONSE"
\* a document-QA turn has ended with the answer after both stages succeeded
C17_Witness ==
    \E t \in DOMAIN turns :
        /\ DocumentQA(t) /\ turns[t].pc = "done"
        /\ "answer" \in turns[t].result.keys
        /\ \E c \in CallsOf(t, "RETRIEVAL_REQUEST") : Succeeded(c)
        /\ \E c \in CallsOf(t, "LLM_REQUEST") : Succeeded(c)
        /\ Types(Trace(t)) = <<"RETRIEVAL_REQUEST", "RETRIEVAL_RESPONSE",
                               "LLM_REQUEST", "LLM_RESPONSE">>

\* the message types of the document pipelines
DocumentTypes ==
    {"INGESTION_REQUEST", "INGESTION_RESPONSE", "RETRIEVAL_REQUEST", "RETRIEVAL_RESPONSE",
     "LLM_REQUEST", "LLM_RESPONSE"}

\* C18: a general-QA turn (no document path, non-empty query) publishes exactly
\* one GENERAL_QUERY_REQUEST and no ingestion, retrieval or answering message;
\* when the response is a success, the result is the answer of its payload.
C18_GeneralQA ==
    \A t \in DOMAIN turns :
        GeneralQA(t) =>
            /\ Count(Trace(t), "GENERAL_QUERY_REQUEST") = 1
            /\ Cardinality(CallsOf(t, "GENERAL_QUERY_REQUEST")) = 1
            /\ \A m \in Range(Trace(t)) : m.type \notin DocumentTypes
            /\ \A c \in CallsOf(t, "GENERAL_QUERY_REQUEST") :
                  /\ calls[c].message.receiver = "GeneralAgent"
                  /\ calls[c].message.payload = turns[t].query
                  /\ Succeeded(c) /\ turns[t].pc = "done" =>
                        /\ turns[t].result.keys = {"answer", "trace_id", "message_history"}
                        /\ turns[t].result.value = calls[c].result.payload
                        /\ turns[t].result.error = ""
\* a general-QA turn has ended with the answer of the general stage
C18_Witness ==
    \E t \in DOMAIN turns :
        /\ GeneralQA(t) /\ turns[t].pc = "done"
        /\ turns[t].result.keys = {"answer", "trace_id", "message_history"}
        /\ Types(Trace(t)) = <<"GENERAL_QUERY_REQUEST", "GENERAL_QUERY_RESPONSE">>

\* C19: a turn with no document path and an empty query returns the input
\* validation error at once and publishes nothing (the history and the queues of
\* every bus are as before); a turn of any other shape publishes a message.
C19_Start ==
    Len(turns') > Len(turns) =>
        LET t == Len(turns')
            turn == turns'[t]
            b == coords'[turn.coord].message_bus
        IN  IF ~Truthy(turn.file_path) /\ turn.query = ""
               THEN /\ turn.pc = "done"
                    /\ turn.result = InvalidResult(turn.trace_id)
                    /\ msg_count' = msg_count
                    /\ calls' = calls
                    /\ \A o \in DOMAIN buses' :
                          /\ buses'[o].message_history
                                = IF o \in DOMAIN buses THEN History(o) ELSE <<>>
                          /\ \A name \in DOMAIN buses'[o].subscribers :
                                buses'[o].subscribers[name]
                                    = IF o \in DOMAIN buses /\ name \in QueueNames(o)
                                         THEN Queue(o, name) ELSE <<>>
               ELSE /\ msg_count' = msg_count + 1
                    /\ Len(buses'[b].message_history)
                          = (IF b \in DOMAIN buses THEN Len(History(b)) ELSE 0) + 1
                    /\ buses'[b].message_history[Len(buses'[b].message_history)].trace_id
                          = turn.trace_id
C19_InvalidPublishesNothing == [][C19_Start]_vars
\* an invalid turn has returned on a bus that holds the message of another turn,
\* which a document with an empty query has started
C19_Witness ==
    \E t, u \in DOMAIN turns :
        /\ InvalidInput(t) /\ turns[t].pc = "done" /\ Trace(t) = <<>>
        /\ u < t /\ TurnBus(u) = TurnBus(t)
        /\ Truthy(turns[u].file_path) /\ turns[u].query = ""
        /\ Trace(u) # <<>>

\* the calls made for turn t that have returned a failure: None after the
\* timeout, or a response of type ERROR
FailedCalls(t) ==
    {c \in DOMAIN calls :
        /\ calls[c].message.trace_id = turns[t].trace_id
        /\ calls[c].pc = "done"
        /\ (calls[c].result = None \/ calls[c].result.type = "ERROR")}
\* is h the first part of seq?
IsPrefix(h, seq) == Len(h) <= Len(seq) /\ \A i \in DOMAIN h : h[i] = seq[i]

\* C20: in every pipeline a stage failure (a response of type ERROR, or None
\* after the timeout) aborts the turn: no request to a later stage is published
\* for the turn, and the result is an error result with the trace_id and the
\* part of the turn's history collected up to the failure.
C20_FailureAborts ==
    \A t \in DOMAIN turns : \A c \in FailedCalls(t) :
        /\ \A m \in Range(Trace(t)) :
              m.sender = "CoordinatorAgent" => m.id <= calls[c].message.id
        /\ turns[t].pc = "done" =>
              /\ turns[t].result.keys = {"error", "trace_id", "message_history"}
              /\ turns[t].result.error # ""
              /\ turns[t].result.trace_id = turns[t].trace_id
              /\ IsPrefix(turns[t].result.message_history, Trace(t))
              /\ calls[c].message \in Range(turns[t].result.message_history)
              /\ calls[c].result # None =>
                    calls[c].result \in Range(turns[t].result.message_history)
\* a document-QA turn has ended with the error of a retrieval stage that
\* answered ERROR
C20_Witness ==
    \E t \in DOMAIN turns :
        /\ DocumentQA(t) /\ turns[t].pc = "done"
        /\ \E c \in FailedCalls(t) :
              /\ calls[c].message.type = "RETRIEVAL_REQUEST"
              /\ calls[c].result # None
        /\ Types(Trace(t)) = <<"RETRIEVAL_REQUEST", "ERROR">>
        /\ Types(turns[t].result.message_history) = <<"RETRIEVAL_REQUEST", "ERROR">>
\* the three pipelines and both kinds of failure are reached
C20_GeneralError ==
    \E t \in DOMAIN turns :
        /\ GeneralQA(t) /\ turns[t].pc = "done"
        /\ \E c \in FailedCalls(t) : calls[c].result # None
C20_EmbedTimeout ==
    \E t \in DOMAIN turns :
        /\ EmbedOnly(t) /\ turns[t].pc = "done"
        /\ \E c \in FailedCalls(t) : calls[c].result = None
C20_AnsweringError ==
    \E t \in DOMAIN turns :
        /\ DocumentQA(t) /\ turns[t].pc = "done"
        /\ \E c \in FailedCalls(t) : calls[c].message.type = "LLM_REQUEST"

-----------------------------------------------------------------------------
(* Turns of the sessions whose stages answer before any time has passed, with *)
(* the controller the application builds for each turn or with a controller  *)
(* that is run again.                                                        *)

NextTrace ==
    \/ \E s \in Sessions, f \in FilePaths, q \in Queries : Run(s, Len(coords) + 1, f, q)
    \/ \E k \in DOMAIN coords, f \in FilePaths, q \in Queries : Run(coords[k].session_id, k, f, q)
    \/ \E c \in DOMAIN calls, o \in Outcomes : Reply(c, o)
    \/ \E c \in DOMAIN calls : CallGet(c)
    \/ \E c \in DOMAIN calls : CallResume(c)
    \/ \E t \in DOMAIN turns : TurnResume(t)

SpecTrace == Init /\ [][NextTrace]_vars

\* the turns that carry the trace_id of message m
TurnsOf(m) == {t \in DOMAIN turns : turns[t].trace_id = m.trace_id}
\* the messages of the coordinators in the history of bus b
Requests(b) == {m \in Range(History(b)) : m.sender = "CoordinatorAgent"}
\* the step publishes a message while process_user_query of turn t runs
PublishesFor(t) ==
    /\ msg_count' = msg_count + 1
    /\ t \in DOMAIN turns => turns'[t] # turns[t]

\* C21: every turn has one new trace_id: no two turns, of the same coordinator or
\* of different ones, have the same; every request a coordinator publishes while
\* it processes a turn carries the trace_id of that turn, and every response of
\* a stage carries the trace_id of the request it answers.
C21_Unique ==
    /\ \A t, u \in DOMAIN turns : t # u => turns[t].trace_id # turns[u].trace_id
    /\ \A b \in DOMAIN buses : \A m \in Requests(b) :
          \E t \in TurnsOf(m) : TurnBus(t) = b
    /\ \A i \in DOMAIN handled :
          /\ handled[i].response # None
          /\ handled[i].response.trace_id = handled[i].request.trace_id
          /\ handled[i].request \in UNION {Requests(b) : b \in DOMAIN buses}
C21_Tagged ==
    \A t \in DOMAIN turns' :
        PublishesFor(t) =>
            LET h == buses'[coords'[turns'[t].coord].message_bus].message_history
            IN  /\ h[Len(h)].id = msg_count'
                /\ h[Len(h)].sender = "CoordinatorAgent"
                /\ h[Len(h)].trace_id = turns'[t].trace_id
C21_OneFreshTraceId == [](C21_Unique) /\ [][C21_Tagged]_vars
\* two turns of one coordinator have each got the response to their request,
\* the one pair under one trace_id and the other pair under another
C21_Witness ==
    \E t, u \in DOMAIN turns :
        /\ t # u /\ turns[t].coord = turns[u].coord
        /\ turns[t].pc = "done" /\ turns[u].pc = "done"
        /\ Len(Trace(t)) = 2 /\ Len(Trace(u)) = 2
        /\ Trace(t)[2].receiver = "CoordinatorAgent"
        /\ Trace(u)[2].receiver = "CoordinatorAgent"

\* the result of turn t carries the trace_id and, in publish order, the messages
\* of the turn: every request of the turn, and what had been published for it
\* when process_user_query returned
CarriesTrace(t) ==
    /\ {"trace_id", "message_history"} \subseteq turns[t].result.keys
    /\ turns[t].result.trace_id = turns[t].trace_id
    /\ IsPrefix(turns[t].result.message_history, Trace(t))
    /\ \A m \in Range(Trace(t)) :
          m.sender = "CoordinatorAgent" => m \in Range(turns[t].result.message_history)

\* C22: every result of a turn, for each of the four input shapes and on success
\* as on error, carries the trace_id of the turn and the ordered trace of the
\* messages published for the turn.
C22_ResultCarriesTrace ==
    \A t \in DOMAIN turns : turns[t].pc = "done" => CarriesTrace(t)
\* the results of the three shapes that publish do carry both
C22_ValidShapes ==
    \A t \in DOMAIN turns : turns[t].pc = "done" /\ ~InvalidInput(t) => CarriesTrace(t)

-----------------------------------------------------------------------------
(* A turn whose stage answers, answers with an ERROR, does not answer, or is *)
(* answered by a message whose payload lacks the keys of a response.         *)

\* some party publishes, to the sender of the request of call c and under its
\* trace_id, a message of the response's type whose payload has no key of it
Stray(c) ==
    /\ ~Replied(c)
    /\ Len(handled) < MaxHandled
    /\ LET b == calls[c].bus
           request == calls[c].message
           message == MCPMessage(msg_count + 1, request.receiver, request.sender,
                                 ResponseType(request.receiver), request.trace_id,
                                 MalformedPayload)
           out == publish(buses[b], message)
       IN  /\ handled' = Append(handled, [agent_name |-> request.receiver, request |-> request,
                                          outcome |-> MalformedPayload,
                                          exception |-> NoException, response |-> message])
           /\ buses' = [buses EXCEPT ![b] = out.bus]
           /\ Logged(b, message, message.receiver \in DOMAIN buses[b].subscribers, out.ret)
           /\ calls' = [d \in DOMAIN calls |->
                          IF out.ret /\ d \in Arrivals(b, message.receiver, message)
                              THEN [calls[d] EXCEPT !.arrived = TRUE] ELSE calls[d]]
           /\ msg_count' = msg_count + 1
    /\ UNCHANGED <<message_buses, hist_result, sysVars, sub_log, cacheVars>>

NextFault ==
    \/ NextTurn
    \/ \E c \in DOMAIN calls : Stray(c)

SpecFault == Init /\ [][NextFault]_vars

\* the calls of turn t to the given stage that have returned
ReturnedCalls(t, stage) ==
    {c \in DOMAIN calls :
        /\ calls[c].message.trace_id = turns[t].trace_id
        /\ calls[c].message.receiver = Receiver(stage)
        /\ calls[c].pc = "done"}

\* C23: a turn never ends in an exception: for every input and whatever its
\* stage has done (a response, an ERROR, no response before the timeout, a
\* payload without the expected keys), the turn ends with a result mapping that
\* has the trace_id and either the error or the value of the response.
C23_NeverRaises ==
    \A t \in DOMAIN turns :
        /\ turns[t].result.value # "raised"
        /\ turns[t].pc = "done" =>
              /\ "trace_id" \in turns[t].result.keys
              /\ turns[t].result.trace_id = turns[t].trace_id
              /\ ("error" \in turns[t].result.keys) # (turns[t].result.error = "")
\* a document-QA turn has ended with the KeyError of a retrieval response
\* without its keys as its error
C23_Witness ==
    \E t \in DOMAIN turns :
        /\ DocumentQA(t) /\ turns[t].pc = "done"
        /\ \E c \in ReturnedCalls(t, "retrieval") :
              /\ calls[c].result # None
              /\ calls[c].result.type = "RETRIEVAL_RESPONSE"
              /\ calls[c].result.payload = MalformedPayload
        /\ turns[t].result.error = "'num_docs'"
        /\ turns[t].result.keys = {"error", "trace_id", "message_history"}
\* the other outcomes end a turn as well
C23_GeneralTimeout ==
    \E t \in DOMAIN turns :
        /\ GeneralQA(t) /\ turns[t].pc = "done"
        /\ turns[t].result.error = "'NoneType' object has no attribute 'payload'"
C23_EmbedMalformed ==
    \E t \in DOMAIN turns :
        /\ EmbedOnly(t) /\ turns[t].pc = "done"
        /\ \E c \in ReturnedCalls(t, "ingestion") :
              calls[c].result # None /\ calls[c].result.payload = MalformedPayload
        /\ "vector_db_ready" \in turns[t].result.keys

-----------------------------------------------------------------------------
(* The turns of one session, each with a new controller, and the end of the  *)
(* session between them.                                                     *)

\* what the user of a session without a document may send
Questions == {"", "question"}

NextCleanup ==
    \/ \E q \in Questions : Run("s1", Len(coords) + 1, NoFile, q)
    \/ \E c \in DOMAIN calls, o \in Outcomes : Reply(c, o)
    \/ \E c \in DOMAIN calls : CallGet(c)
    \/ \E c \in DOMAIN calls : CallResume(c)
    \/ \E c \in DOMAIN calls : CallPollExpire(c)
    \/ \E c \in DOMAIN calls : CallPollTimeout(c)
    \/ \E t \in DOMAIN turns : TurnResume(t)
    \/ CleanupSession("s1")
    \/ Tick

SpecCleanup == Init /\ [][NextCleanup]_vars

\* the buses that were made for a session
BusesOf(session_id) == {b \in DOMAIN buses : buses[b].session_id = session_id}
\* the step ends a session: the registry loses an entry
Ends == DOMAIN message_buses' # DOMAIN message_buses /\ Len(coords') = Len(coords)
\* the step builds a coordinator for a session that was ended and not coordinated since
CoordinatesAfterEnd(session_id) ==
    /\ Len(coords') > Len(coords)
    /\ coords'[Len(coords')].session_id = session_id
    /\ session_id \notin DOMAIN message_buses
    /\ BusesOf(session_id) # {}

\* C24: the end of a session removes its entry from the registry; the next
\* coordinator of the session then gets a new bus, with an empty history and no
\* queue, and no message that was published on the old bus, queued there or not,
\* is ever in a queue of the new bus or returned by a call on it.
C24_OwnMessages ==
    /\ \A b \in DOMAIN buses : Queued(b) \cup Range(History(b)) \subseteq Range(published[b])
    /\ \A b, o \in DOMAIN buses : b # o => Range(published[b]) \cap Range(published[o]) = {}
    /\ \A c \in DOMAIN calls :
          /\ calls[c].held # None => calls[c].held \in Range(published[calls[c].bus])
          /\ calls[c].result # None => calls[c].result \in Range(published[calls[c].bus])
C24_Step ==
    /\ Ends =>
          \E s \in DOMAIN message_buses :
              message_buses' = [r \in DOMAIN message_buses \ {s} |-> message_buses[r]]
    /\ \A s \in Sessions :
           CoordinatesAfterEnd(s) =>
                 LET b == coords'[Len(coords')].message_bus
                 IN  /\ b \notin DOMAIN buses
                     /\ message_buses'[s] = b
                     /\ \A m \in Range(buses'[b].message_history) : m.id > msg_count
                     /\ \A name \in DOMAIN buses'[b].subscribers :
                           /\ name = "CoordinatorAgent"
                           /\ buses'[b].subscribers[name] = <<>>
C24_EndSession == [](C24_OwnMessages) /\ [][C24_Step]_vars
\* a session was ended while a late response lay in a queue of its bus; its next
\* turn has been answered on the new bus, and the old message lies where it was
C24_Witness ==
    \E o, b \in BusesOf("s1") :
        /\ o # b
        /\ "s1" \in DOMAIN message_buses /\ message_buses["s1"] = b
        /\ Queued(o) # {}
        /\ \E t \in DOMAIN turns :
              /\ TurnBus(t) = b /\ turns[t].pc = "done"
              /\ "answer" \in turns[t].result.keys

-----------------------------------------------------------------------------
(* The retrieval capability: the retriever graph (check_db, load_retriever,  *)
(* generate_queries, retrieve_in_parallel, finalize) run for the retrieval   *)
(* requests of the sessions, with the module-level retriever_cache and the   *)
(* vector DBs on the disk. The runs are tasks of an event loop: a node runs  *)
(* without interruption up to its first await that suspends.                 *)

MaxRetrievals == 2
MaxDbs == 2

\* Chroma.from_documents(..., persist_directory=path) and Chroma(persist_directory=path):
\* the DB at path, made if it is not there; made counts the DBs made at the path
persist(dirs, path) ==
    IF path \in DOMAIN dirs
        THEN IF dirs[path].exists THEN dirs
             ELSE [dirs EXCEPT ![path] = [exists |-> TRUE, made |-> @.made + 1]]
        ELSE dirs @@ (path :> [exists |-> TRUE, made |-> 1])

\* how often a DB was made at the path
Made(dirs, path) == IF path \in DOMAIN dirs THEN dirs[path].made ELSE 0

\* how many DBs were made in all
RECURSIVE MadeIn(_, _)
MadeIn(dirs, paths) ==
    IF paths = {} THEN 0
    ELSE LET path == CHOOSE path \in paths : TRUE
         IN  dirs[path].made + MadeIn(dirs, paths \ {path})

\* check_vector_db: `os.path.exists(path) and bool(os.listdir(path))`
check_vector_db(dirs, path) == path \in DOMAIN dirs /\ dirs[path].exists

\* a plausible slip: the retriever is made without a look at the cache
create_retriever_always(cache, objects, dirs, state) ==
    LET opened == persist(dirs, state.vector_db_path)
    IN  [cache |-> [p \in DOMAIN cache \cup {state.retriever_path} |->
                       IF p = state.retriever_path THEN Len(objects) + 1 ELSE cache[p]],
         objects |-> Append(objects, [retriever_path |-> state.retriever_path,
                                      vector_db_path |-> state.vector_db_path,
                                      made |-> Made(opened, state.vector_db_path)]),
         dirs |-> opened]

\* create_retriever: `if state.retriever_path not in retriever_cache:` the vector
\* DB is opened and its retriever stored under the key; no await in between
create_retriever(cache, objects, dirs, state) ==
    IF state.retriever_path \notin DOMAIN cache
        THEN LET opened == persist(dirs, state.vector_db_path)
             IN  [cache |-> cache @@ (state.retriever_path :> Len(objects) + 1),
                  objects |-> Append(objects, [retriever_path |-> state.retriever_path,
                                               vector_db_path |-> state.vector_db_path,
                                               made |-> Made(opened, state.vector_db_path)]),
                  dirs |-> opened]
        ELSE [cache |-> cache, objects |-> objects, dirs |-> dirs]

\* RetrieverState at the start of a run; first_use and db are history fields: was
\* the key missing from the cache, and which DB was on the disk, at check_db
NewRetrieval(session_id) ==
    [session_id |-> session_id, vector_db_path |-> vector_db_path(session_id),
     retriever_path |-> retriever_path(session_id), pc |-> "check_db",
     vector_db_ready |-> FALSE, retriever_ready |-> FALSE, retriever |-> 0,
     first_use |-> FALSE, db |-> 0]

\* the embedder graph has run for a document of the session: embed_and_persist
Ingest(session_id) ==
    /\ MadeIn(vector_db, DOMAIN vector_db) < MaxDbs
    /\ vector_db' = persist(vector_db, vector_db_path(session_id))
    /\ vector_db' # vector_db
    /\ UNCHANGED <<busVars, sysVars, logVars, retriever_cache, retrievers, retrievals>>

\* process_retrieval_request starts `await self.retriever_graph.ainvoke(...)`
Retrieve(session_id) ==
    /\ Len(retrievals) < MaxRetrievals
    /\ retrievals' = Append(retrievals, NewRetrieval(session_id))
    /\ UNCHANGED <<busVars, sysVars, logVars, vector_db, retriever_cache, retrievers>>

\* node check_db, and the conditional edge to load_retriever or to finalize
CheckDb(i) ==
    /\ retrievals[i].pc = "check_db"
    /\ LET ready == check_vector_db(vector_db, retrievals[i].vector_db_path)
       IN  retrievals' = [retrievals EXCEPT
               ![i].vector_db_ready = ready,
               ![i].first_use = retrievals[i].retriever_path \notin DOMAIN retriever_cache,
               ![i].db = Made(vector_db, retrievals[i].vector_db_path),
               ![i].pc = IF ready THEN "load_retriever" ELSE "done"]
    /\ UNCHANGED <<busVars, sysVars, logVars, vector_db, retriever_cache, retrievers>>

\* node load_retriever
LoadRetriever(i) ==
    /\ retrievals[i].pc = "load_retriever"
    /\ LET out == create_retriever(retriever_cache, retrievers, vector_db, retrievals[i])
       IN  /\ retriever_cache' = out.cache
           /\ retrievers' = out.objects
           /\ vector_db' = out.dirs
    /\ retrievals' = [retrievals EXCEPT ![i].retriever_ready = TRUE, ![i].pc = "generate_queries"]
    /\ UNCHANGED <<busVars, sysVars, logVars>>

\* node generate_queries: `await structured_llm.ainvoke(messages)` has returned
GenerateQueries(i) ==
    /\ retrievals[i].pc = "generate_queries"
    /\ retrievals' = [retrievals EXCEPT ![i].pc = "retrieve_in_parallel"]
    /\ UNCHANGED <<busVars, sysVars, logVars, vector_db, retriever_cache, retrievers>>

\* node retrieve_in_parallel: `retriever_cache.get(state.retriever_path)`, the
\* queries run on it, and finalize
RetrieveInParallel(i) ==
    /\ retrievals[i].pc = "retrieve_in_parallel"
    /\ retrievals' = [retrievals EXCEPT
           ![i].retriever = IF retrievals[i].retriever_path \in DOMAIN retriever_cache
                               THEN retriever_cache[retrievals[i].retriever_path] ELSE 0,
           ![i].pc = IF retrievals[i].retriever_path \in DOMAIN retriever_cache
                        THEN "done" ELSE "raised"]
    /\ UNCHANGED <<busVars, sysVars, logVars, vector_db, retriever_cache, retrievers>>

NextRetriever ==
    \/ \E s \in Sessions : Ingest(s)
    \/ \E s \in Sessions : Retrieve(s)
    \/ \E i \in DOMAIN retrievals : CheckDb(i)
    \/ \E i \in DOMAIN retrievals : LoadRetriever(i)
    \/ \E i \in DOMAIN retrievals : GenerateQueries(i)
    \/ \E i \in DOMAIN retrievals : RetrieveInParallel(i)
    \/ \E s \in Sessions : CleanupSession(s)

SpecRetriever == Init /\ [][NextRetriever]_vars

\* the step ends session s: its vector DB leaves the disk
EndsSession(s) ==
    /\ check_vector_db(vector_db, vector_db_path(s))
    /\ ~check_vector_db(vector_db', vector_db_path(s))
\* the runs of the retriever graph that have retrieved
Retrieved == {i \in DOMAIN retrievals : retrievals[i].pc = "done" /\ retrievals[i].retriever # 0}

\* C25: the end of a session releases its retriever: after it the cache has no
\* entry under the session's key, so that a later retrieval of the session works
\* on a retriever opened on the vector DB it found, never on one opened on a DB
\* of before the end.
C25_OwnDb ==
    \A i \in Retrieved : retrievers[retrievals[i].retriever].made >= retrievals[i].db
C25_Step ==
    \A s \in Sessions : EndsSession(s) => retriever_path(s) \notin DOMAIN retriever_cache'
C25_RetrieverReleased == [](C25_OwnDb) /\ [][C25_Step]_vars

\* the retriever objects constructed for a key
ConstructedFor(key) == {r \in DOMAIN retrievers : retrievers[r].retriever_path = key}

\* C30: when two retrievals of one key run their first use at the same time
\* (both have passed check_db before a retriever is cached for the key), one
\* retriever is constructed for the key, and both retrievals use that one.
C30_OneRetrieverPerKey ==
    /\ \A i \in DOMAIN retrievals :
          Cardinality(ConstructedFor(retrievals[i].retriever_path)) <= 1
    /\ \A i \in Retrieved :
          /\ retrievals[i].retriever \in ConstructedFor(retrievals[i].retriever_path)
          /\ retrievals[i].retriever = retriever_cache[retrievals[i].retriever_path]
\* two retrievals of one key that both found the cache without the key have
\* retrieved, on the same retriever
C30_Witness ==
    \E i, j \in Retrieved :
        /\ i # j
        /\ retrievals[i].retriever_path = retrievals[j].retriever_path
        /\ retrievals[i].first_use /\ retrievals[j].first_use
        /\ retrievals[i].retriever = retrievals[j].retriever
        /\ Cardinality(ConstructedFor(retrievals[i].retriever_path)) = 1

-----------------------------------------------------------------------------
(* The program, with initialize() of a coordinator called again at any time. *)

\* `await coordinator.initialize()` on a coordinator that exists: the stage
\* services subscribe again, the listeners are started if they were not
CoordinatorInitialize(k) ==
    /\ coords' = [coords EXCEPT ![k] = Initialized(@)]
    /\ buses' = [buses EXCEPT ![StageBus(coords[k])] = SubscribeStages(@)]
    /\ UNCHANGED <<message_buses, calls, msg_count, published, pub_ret, routed, hist_result,
                   turns, logVars, cacheVars>>

NextInitialize ==
    \/ Next
    \/ \E k \in DOMAIN coords : CoordinatorInitialize(k)

SpecInitialize == Init /\ [][NextInitialize]_vars

\* C26: the listeners of a coordinator are started once, on its first use:
\* whatever the number of initialize() and run() calls on it, the coordinator has
\* started one start_agent_listeners task, that is one loop per stage service.
C26_ListenersOnce ==
    \A k \in DOMAIN coords :
        /\ coords[k].listener_tasks <= 1
        /\ coords[k].listeners_started <=> coords[k].listener_tasks = 1
        /\ coords[k].initialized => coords[k].listeners_started
\* a coordinator has been run for two turns, and has its one task
C26_Witness ==
    \E t, u \in DOMAIN turns :
        /\ t # u /\ turns[t].coord = turns[u].coord
        /\ coords[turns[t].coord].listener_tasks = 1

-----------------------------------------------------------------------------
(* The listeners of one coordinator at work: a client publishes requests on  *)
(* the bus of the stage queues, some of them with a type that is not a       *)
(* member of the enum, for which the logging line of the loop raises.        *)

\* is there room for one more request and its response?
Room == 2 * (Len(published[GlobalBus]) + 1) <= MaxMsgs

\* a client publishes on bus b, for a stage, a message whose type is a string
Unloggable(b, agent_name, sender, trace_id) ==
    /\ Room
    /\ LET message == MCPMessage(msg_count + 1, sender, agent_name, NotAType, trace_id, "request")
           out == publish(buses[b], message)
       IN  /\ buses' = [buses EXCEPT ![b] = out.bus]
           /\ Logged(b, message, agent_name \in DOMAIN buses[b].subscribers, out.ret)
    /\ msg_count' = msg_count + 1
    /\ UNCHANGED <<message_buses, calls, hist_result, sysVars, logVars, cacheVars>>

\* one step of the listener of a stage: a get, or the end of the capability
ListenerStep(k, agent_name) ==
    \E o \in Outcomes : ListenerGet(k, agent_name, o) \/ ListenerHandle(k, agent_name, o)

NextListener ==
    \/ Initialize("s1")
    \/ \E n \in StageNames : Room /\ Request(GlobalBus, n, "Client", TraceOf("Client"))
    \/ \E n \in StageNames : Unloggable(GlobalBus, n, "Client", TraceOf("Client"))
    \/ \E k \in DOMAIN coords, n \in StageNames : ListenerStep(k, n)

\* the event loop runs every listener that can go on, and a capability ends
ListenerFairness ==
    \A n \in StageNames : WF_vars(1 \in DOMAIN coords /\ ListenerStep(1, n))

LiveListener == Init /\ [][NextListener]_vars /\ ListenerFairness

\* the message with this id lies in the queue of the stage, and is a request
Enqueued(agent_name, id) ==
    /\ agent_name \in QueueNames(GlobalBus)
    /\ \E i \in DOMAIN Queue(GlobalBus, agent_name) :
          /\ Queue(GlobalBus, agent_name)[i].id = id
          /\ to_dict_returns(Queue(GlobalBus, agent_name)[i])
\* the stage has handled the message with this id
Handled(agent_name, id) ==
    \E i \in DOMAIN handled :
        handled[i].agent_name = agent_name /\ handled[i].request.id = id

\* C27: an exception in the loop of a listener does not end it: every request
\* that lies in the queue of a stage, after whatever messages the loop has
\* failed on, is in the end popped and handled by the stage.
C27_ListenerGoesOn ==
    \A n \in StageNames : \A id \in 1..MaxMsgs : Enqueued(n, id) ~> Handled(n, id)
\* the loop of a stage has logged an exception for one message and the stage
\* has handled a later one
C27_Witness ==
    \E k \in DOMAIN coords, n \in StageNames, e \in 1..MaxMsgs, id \in 1..MaxMsgs :
        /\ <<n, e>> \in coords[k].errors
        /\ e < id
        /\ Handled(n, id)


-----------------------------------------------------------------------------
(* Ordering of the requests of one turn, checked under SpecTurn *)

\* the first n messages of the history for turn t
TraceUpTo(t, n) == SubSeq(Trace(t), 1, n)
\* the requests of turn t among them, and the responses to its coordinator
RequestsIn(seq) == {i \in DOMAIN seq : seq[i].sender = "CoordinatorAgent"}
ResponsesIn(seq) == {i \in DOMAIN seq : seq[i].receiver = "CoordinatorAgent"}
\* the calls of turn t that have not returned
Outstanding(t) ==
    {c \in DOMAIN calls : calls[c].message.trace_id = turns[t].trace_id /\ calls[c].pc # "done"}

\* C28: within one turn a stage request is issued only after the response of the
\* previous stage has been received: in the history for the turn's trace_id the
\* LLM_REQUEST comes after the RETRIEVAL_RESPONSE, which the retrieval call has
\* returned, and at no time are two requests of a turn without a response.
C28_OneRequestAtATime ==
    \A t \in DOMAIN turns :
        /\ \A i \in DOMAIN Trace(t) :
              Trace(t)[i].type = "LLM_REQUEST" =>
                  /\ \E j \in 1..(i - 1) :
                        /\ Trace(t)[j].type = "RETRIEVAL_RESPONSE"
                        /\ Trace(t)[j].sender = Receiver("retrieval")
                        /\ \E c \in CallsOf(t, "RETRIEVAL_REQUEST") :
                              calls[c].pc = "done" /\ calls[c].result = Trace(t)[j]
        /\ \A n \in 0..Len(Trace(t)) :
              Cardinality(RequestsIn(TraceUpTo(t, n)))
                  - Cardinality(ResponsesIn(TraceUpTo(t, n))) <= 1
        /\ Cardinality(Outstanding(t)) <= 1
\* a turn has issued its answering request after the retrieval response, and the
\* answering request is the one request without a response
C28_Witness ==
    \E t \in DOMAIN turns :
        /\ Types(Trace(t)) = <<"RETRIEVAL_REQUEST", "RETRIEVAL_RESPONSE", "LLM_REQUEST">>
        /\ Cardinality(Outstanding(t)) = 1

-----------------------------------------------------------------------------
(* The consumers of a stage queue, checked under Spec *)

\* the coordinators of the session whose listener of the stage is running and
\* gets from the queue of that name on bus q
Consumers(session_id, agent_name, q) ==
    {k \in DOMAIN coords : /\ coords[k].session_id = session_id
                           /\ coords[k].listener_tasks > 0
                           /\ agent_name \notin coords[k].ended
                           /\ coords[k].message_queue[agent_name] = q}

\* C29: for each session and each stage, the inbound queue of the stage has a
\* single consumer, the one listener loop of that stage, also when a new
\* controller and coordinator is constructed for the session on every turn.
C29_SingleConsumer ==
    \A s \in Sessions, n \in StageNames, q \in DOMAIN buses :
        Cardinality(Consumers(s, n, q)) <= 1

-----------------------------------------------------------------------------
(* Delivery of the messages of a turn, checked under Spec *)

\* the stage requests of the coordinators and the responses to them
TurnMessages ==
    {m \in UNION {Range(published[b]) : b \in DOMAIN published} :
        m.sender = "CoordinatorAgent" \/ m.receiver = "CoordinatorAgent"}

\* C31: for every turn started through run(), the four stage queues are
\* subscribed before the coordinator's first publish and the coordinator's own
\* queue before its request is published: every stage request and every response
\* to the coordinator is delivered (publish returns True), never the warning.
C31_AllDelivered ==
    \A m \in TurnMessages : pub_ret[m.id]

-----------------------------------------------------------------------------
(* Several coordinators of one session: the application constructs a        *)
(* controller for every turn, and the listener tasks of the earlier ones go *)
(* on running on the session's event loop.                                  *)

\* controller.initialize() of a further controller of the session: its
\* coordinator takes the session's bus from the registry, its stage services
\* subscribe (and get the queues that exist), its listener tasks are started
NextController(session_id) ==
    /\ \E k \in DOMAIN coords : coords[k].session_id = session_id
    /\ Len(coords) < MaxTurns
    /\ LET got == get_message_bus(session_id)
           coordinator == Initialized(NewCoordinator(session_id, got.ret))
           registered == IF got.created THEN buses @@ (got.ret :> NewBus(session_id)) ELSE buses
       IN  /\ message_buses' = got.registry
           /\ coords' = Append(coords, coordinator)
           /\ buses' = [registered EXCEPT ![StageBus(coordinator)] = SubscribeStages(@)]
           /\ published' = IF got.created THEN published @@ (got.ret :> <<>>) ELSE published
    /\ UNCHANGED <<calls, msg_count, pub_ret, routed, hist_result, turns, logVars, cacheVars>>

NextListeners ==
    \/ Initialize("s1")
    \/ NextController("s1")
    \/ \E n \in StageNames, c \in Clients : Request(GlobalBus, n, c, TraceOf(c))
    \/ \E k \in DOMAIN coords, n \in StageNames, o \in Outcomes : ListenerGet(k, n, o)
    \/ \E k \in DOMAIN coords, n \in StageNames, o \in Outcomes : ListenerHandle(k, n, o)

SpecListeners == Init /\ [][NextListeners]_vars

\* everything published, on any bus
AllPublished == UNION {Range(published[b]) : b \in DOMAIN published}
\* the requests delivered to the queue of a stage
Delivered(agent_name) ==
    {m \in Range(published[GlobalBus]) : m.receiver = agent_name /\ m.id \in routed}
\* where a request is: in the queue, in the hand of a listener, or handled
InQueue(agent_name, m) ==
    {i \in DOMAIN Queue(GlobalBus, agent_name) : Queue(GlobalBus, agent_name)[i] = m}
InHand(agent_name, m) == {k \in DOMAIN coords : coords[k].in_hand[agent_name] = m}
HandledAt(agent_name, m) ==
    {i \in DOMAIN handled : handled[i].agent_name = agent_name /\ handled[i].request = m}
\* the messages published in reply to request m by the stage
Replies(agent_name, m) ==
    {r \in AllPublished : /\ r.sender = agent_name /\ r.receiver = m.sender
                          /\ r.trace_id = m.trace_id
                          /\ \E i \in HandledAt(agent_name, m) : handled[i].response = r}

\* C32: a request delivered to a stage queue is answered exactly once: it is
\* with one consumer at a time (in the queue, or popped by one listener, or
\* handled once), no request is handled twice, and a handled request has exactly
\* one reply published, with its trace_id, from the stage and to the requester,
\* also when several coordinators of the session run listeners on the queue.
C32_AnsweredOnce ==
    \A n \in StageNames :
        \A m \in Delivered(n) :
            /\ Cardinality(InQueue(n, m)) + Cardinality(InHand(n, m))
                   + Cardinality(HandledAt(n, m)) = 1
            /\ Cardinality(Replies(n, m)) = Cardinality(HandledAt(n, m))
            /\ \A r \in AllPublished :
                  r.sender = n /\ r.id > m.id =>
                      \E i \in DOMAIN handled : handled[i].response = r
\* two requests of one stage have been handled and answered once each while two
\* coordinators of the session run a listener on the stage's queue
C32_Witness ==
    \E n \in StageNames, i, j \in DOMAIN handled :
        /\ i # j
        /\ handled[i].agent_name = n /\ handled[j].agent_name = n
        /\ Cardinality({k \in DOMAIN coords : coords[k].session_id = "s1"
                                               /\ coords[k].listener_tasks > 0}) >= 2
        /\ Cardinality(Replies(n, handled[i].request)) = 1
        /\ Cardinality(Replies(n, handled[j].request)) = 1

-----------------------------------------------------------------------------
(* The queues and the history of a Bus, checked under SpecBus *)

\* C33: in every reachable state of a bus, every message held in one of its
\* queues is an entry of its history, and is addressed to the name of the queue:
\* a queue only ever holds published messages, also after put-backs (and so does
\* the hand of a call between its get and its put-back).
C33_QueuedIsPublished ==
    /\ \A b \in DOMAIN buses : \A name \in QueueNames(b) :
          \A i \in DOMAIN Queue(b, name) :
              /\ Queue(b, name)[i] \in Range(History(b))
              /\ Queue(b, name)[i].receiver = name
    /\ \A c \in DOMAIN calls :
          calls[c].pc = "got" => calls[c].held \in Range(History(calls[c].bus))
\* a call has put a mismatched message back and waits again, and the message is
\* in the queue behind one that was published after it
C33_Witness ==
    \E c \in DOMAIN calls :
        /\ calls[c].pc = "wait"
        /\ \E i, j \in DOMAIN QueueOf(c) :
              /\ i < j
              /\ QueueOf(c)[j].id < QueueOf(c)[i].id
              /\ QueueOf(c)[j].trace_id # calls[c].message.trace_id
              /\ QueueOf(c)[j] \in Range(History(calls[c].bus))

-----------------------------------------------------------------------------
(* The embed-only turn and the outcome of the embedder, checked under        *)
(* SpecEmbed: the turns of SpecTurn, with an ingestion capability that may   *)
(* also return without success.                                              *)

\* the embedder graph returns {"success": False, ...}: check_file_exists found
\* no file and the graph went to finalize with vector_db_ready unset
NoSuccess == "no success"

\* `"success": result.get("success", False)` of the ingestion payload
success(payload) == payload # NoSuccess

\* `"vector_db_ready": True` of the ingestion payload, whatever the result
vector_db_ready(payload) == TRUE

\* `ingestion_response.payload.get("vector_db_ready", False)` in the result of
\* the turn: does the result report the store as ready?
ReportsReady(result) ==
    "vector_db_ready" \in result.keys /\ vector_db_ready(result.value)

NextEmbed ==
    \/ NextTurn
    \/ \E c \in DOMAIN calls : Reply(c, NoSuccess)

SpecEmbed == Init /\ [][NextEmbed]_vars

\* C34: in an embed-only turn the result reports the store as ready only if the
\* capability of the ingestion stage reported success = true; when it reports
\* success = false (the document file does not exist) the store is not
\* reported ready.
C34_ReadyOnlyIfSuccess ==
    \A t \in DOMAIN turns :
        EmbedOnly(t) /\ turns[t].pc = "done" /\ ReportsReady(turns[t].result) =>
            success(turns[t].result.value)

-----------------------------------------------------------------------------
(* Messages of any kind on the stage queues, checked under SpecKinds: a      *)
(* client calls the stages with requests of a kind that is, or is not, the   *)
(* kind of the stage.                                                        *)

\* the kinds of the requests of the client
Kinds == {"INGESTION_REQUEST", "GENERAL_QUERY_REQUEST"}

\* the client's send_and_wait_response of a request of some kind to a stage, on
\* the bus the stages subscribed on.  The listeners publish on the bus of their
\* coordinator, so the client's queue on this bus stays empty and its get()
\* never returns: the call polls until its deadline.
SendKind(agent_name, type, trace_id) ==
    /\ msg_count < MaxMsgs
    /\ Len(calls) < MaxCalls
    /\ \A c \in DOMAIN calls : calls[c].message.trace_id # trace_id
    /\ StartCall(GlobalBus, MCPMessage(msg_count + 1, "Client", agent_name, type, trace_id,
                                       "request"))
    /\ UNCHANGED <<message_buses, hist_result, sysVars, logVars, cacheVars>>

NextKinds ==
    \/ Initialize("s1")
    \/ \E n \in StageNames, type \in Kinds, t \in BusTraceIds : SendKind(n, type, t)
    \/ \E k \in DOMAIN coords, n \in StageNames, o \in Outcomes : ListenerGet(k, n, o)
    \/ \E k \in DOMAIN coords, n \in StageNames, o \in Outcomes : ListenerHandle(k, n, o)
    \/ \E c \in DOMAIN calls : CallPollExpire(c)
    \/ \E c \in DOMAIN calls : CallPollTimeout(c)
    \/ Tick

SpecKinds == Init /\ [][NextKinds]_vars

\* the request was delivered to the stage's queue and a listener has popped and
\* dropped it: it is not in the queue, in no hand, and was not handled
Dropped(agent_name, m) ==
    /\ m \in Delivered(agent_name)
    /\ InQueue(agent_name, m) = {} /\ InHand(agent_name, m) = {}
    /\ HandledAt(agent_name, m) = {}
\* the step takes the head off the queue of the stage
Pops(agent_name) ==
    /\ agent_name \in QueueNames(GlobalBus)
    /\ Queue(GlobalBus, agent_name) # <<>>
    /\ Queue(GlobalBus, agent_name)' = Tail(Queue(GlobalBus, agent_name))

\* what is handled and published is of the kinds the listeners let through
C35_Handled ==
    /\ \A i \in DOMAIN handled :
          handled[i].agent_name = "IngestionAgent" =>
              handled[i].request.type = "INGESTION_REQUEST"
    /\ \A r \in AllPublished :
          r.sender = "IngestionAgent" =>
              \E i \in DOMAIN handled : /\ handled[i].response = r
                                        /\ handled[i].request.type = "INGESTION_REQUEST"
    /\ \A c \in DOMAIN calls :
          /\ Dropped("IngestionAgent", calls[c].message)
          /\ calls[c].pc = "done"
          => calls[c].result = None /\ calls[c].elapsed >= TimeoutTicks
    /\ \A n \in StageNames \ {"IngestionAgent"} :
          \A m \in Delivered(n) :
              /\ Cardinality(InQueue(n, m)) + Cardinality(InHand(n, m))
                     + Cardinality(HandledAt(n, m)) = 1
              /\ \A i \in HandledAt(n, m) :
                    handled[i].response.type \in {ResponseType(n), "ERROR"}
\* the step in which the ingestion listener pops a message that is not an
\* INGESTION_REQUEST publishes nothing and handles nothing
C35_Drop ==
    /\ Pops("IngestionAgent")
    /\ Head(Queue(GlobalBus, "IngestionAgent")).type # "INGESTION_REQUEST"
    => /\ published' = published
       /\ handled' = handled
       /\ msg_count' = msg_count
       /\ \A k \in DOMAIN coords : coords'[k].in_hand = coords[k].in_hand

\* C35: the ingestion listener pops and drops, without publishing a response or
\* an ERROR, every message of its queue whose kind is not INGESTION_REQUEST, and
\* the sender of such a message can only end by timeout; the other three
\* listeners handle every message whatever its kind.
C35_IngestionDropsOtherKinds == [](C35_Handled) /\ [][C35_Drop]_vars
\* the ingestion listener has dropped a request of another kind, whose sender has
\* got None at the deadline, and another stage has handled a request that is not
\* of its own kind
C35_Witness ==
    /\ \E c \in DOMAIN calls :
          /\ calls[c].message.type # "INGESTION_REQUEST"
          /\ Dropped("IngestionAgent", calls[c].message)
          /\ calls[c].pc = "done" /\ calls[c].result = None
    /\ \E i \in DOMAIN handled :
          /\ handled[i].agent_name = "RetrievalAgent"
          /\ handled[i].request.type = "GENERAL_QUERY_REQUEST"
          /\ handled[i].response.type = "RETRIEVAL_RESPONSE"

-----------------------------------------------------------------------------
(* Responses that come after their call has returned, checked under          *)
(* SpecCleanup: the turns of one session follow each other on its bus.       *)

\* the call has returned None
ReturnedNone(c) == calls[c].pc = "done" /\ calls[c].result = None
\* the messages with the trace_id of call c delivered to the queue of its sender
\* since its request was published
Late(c) ==
    {m \in Range(History(calls[c].bus)) :
        /\ m.id > calls[c].message.id
        /\ m.receiver = calls[c].response_queue
        /\ m.trace_id = calls[c].message.trace_id
        /\ m.id \in routed}
\* a call on the queue of call c has popped m and has not yet put it back
HeldOn(c, m) ==
    \E d \in CallsOn(calls[c].bus, calls[c].response_queue) :
        calls[d].pc = "got" /\ calls[d].held = m

\* C36: a response enqueued on the sender's queue after the call for its
\* trace_id has returned None is never returned by a later call and never leaves
\* that queue for the rest of the life of the bus: a later call pops it and puts
\* it back.
C36_LateResponseStays ==
    \A c \in DOMAIN calls :
        ReturnedNone(c) =>
            \A m \in Late(c) :
                /\ m \in Range(QueueOf(c)) \/ HeldOn(c, m)
                /\ \A d \in DOMAIN calls : calls[d].result # m
\* a response came after its call had returned None, and a later call of the
\* same sender on that bus has returned a response published after it: the late
\* response was popped and put back, and is in the queue
C36_Witness ==
    \E c, d \in DOMAIN calls :
        /\ ReturnedNone(c) /\ ~calls[c].arrived
        /\ c < d /\ calls[d].bus = calls[c].bus
        /\ calls[d].response_queue = calls[c].response_queue
        /\ Returned(d)
        /\ \E m \in Late(c) : m.id < calls[d].result.id /\ m \in Range(QueueOf(c))

-----------------------------------------------------------------------------
(* A retrieval without passages, checked under SpecPassages: the turns of    *)
(* SpecTurn, with a retrieval capability that may also return no passage.    *)

NextPassages ==
    \/ NextTurn
    \/ \E c \in DOMAIN calls :
          calls[c].message.receiver = Receiver("retrieval") /\ Reply(c, NoPassages)

SpecPassages == Init /\ [][NextPassages]_vars

\* the retrieval call of turn t has returned a RETRIEVAL_RESPONSE without passages
EmptyRetrieval(t) ==
    \E c \in CallsOf(t, "RETRIEVAL_REQUEST") :
        /\ calls[c].pc = "done" /\ calls[c].result # None
        /\ calls[c].result.type = "RETRIEVAL_RESPONSE"
        /\ calls[c].result.payload = NoPassages

\* C37: a document-QA turn whose retrieval response is a RETRIEVAL_RESPONSE with
\* zero passages is not a failure: the coordinator still publishes the answering
\* request, with the empty passage list, and returns the answer and the context
\* of the answering response.
C37_EmptyRetrievalGoesOn ==
    \A t \in DOMAIN turns :
        DocumentQA(t) /\ EmptyRetrieval(t) /\ turns[t].pc # "retrieval" =>
            /\ Count(Trace(t), "LLM_REQUEST") = 1
            /\ \A m \in Answering(t) : m.payload = NoPassages
            /\ turns[t].pc = "done" =>
                  /\ turns[t].result.error \notin
                         {Failure("retrieval", None), "Retrieval failed: payload", "'num_docs'"}
                  /\ \A c \in CallsOf(t, "LLM_REQUEST") :
                        Succeeded(c) =>
                            /\ turns[t].result.keys = {"answer", "source_context", "trace_id",
                                                       "message_history"}
                            /\ turns[t].result.value = calls[c].result.payload
\* a document-QA turn has returned the answer after a retrieval without passages
C37_Witness ==
    \E t \in DOMAIN turns :
        /\ DocumentQA(t) /\ EmptyRetrieval(t) /\ turns[t].pc = "done"
        /\ "answer" \in turns[t].result.keys
        /\ Types(Trace(t)) = <<"RETRIEVAL_REQUEST", "RETRIEVAL_RESPONSE",
                               "LLM_REQUEST", "LLM_RESPONSE">>

-----------------------------------------------------------------------------
(* The error text of a failed turn, checked under Spec *)

\* the stage an error text names, and what it carries of the failure
Names(error) ==
    CASE error \in {"Ingestion failed: No response", "Ingestion failed: payload"} -> "ingestion"
      [] error \in {"Retrieval failed: No response", "Retrieval failed: payload"} -> "retrieval"
      [] error \in {"LLM processing failed: No response", "LLM processing failed: payload"}
            -> "llm"
      [] OTHER -> "none"
Carries(error) ==
    CASE error \in {"Ingestion failed: No response", "Retrieval failed: No response",
                    "LLM processing failed: No response"} -> "No response"
      [] error \in {"Ingestion failed: payload", "Retrieval failed: payload",
                    "LLM processing failed: payload"} -> "payload"
      [] OTHER -> "none"
\* the error text of the result of turn t tells the failure of call c
TellsFailure(t, c) ==
    /\ Names(turns[t].result.error) = Stage(calls[c].message.receiver)
    /\ Carries(turns[t].result.error) =
           IF calls[c].result = None THEN "No response" ELSE "payload"

\* C38: for every failed turn, in any pipeline, the error text of the result
\* names the stage that failed and carries that stage's ERROR payload, or the
\* marker 'No response' for a timeout; for the general-QA pipeline as for
\* ingestion, retrieval and answering.
C38_ErrorNamesStage ==
    \A t \in DOMAIN turns : \A c \in FailedCalls(t) :
        turns[t].pc = "done" => TellsFailure(t, c)
\* the same for the turns with a document only
C38_DocumentErrorsNameStage ==
    \A t \in DOMAIN turns : \A c \in FailedCalls(t) :
        turns[t].pc = "done" /\ ~GeneralQA(t) => TellsFailure(t, c)

-----------------------------------------------------------------------------
(* What the controller returns for the result of its coordinator, checked    *)
(* under SpecAnswer: the turns of SpecTurn, with an answering and a general  *)
(* capability that may also return an empty text.                            *)

\* the payload of a response whose "answer" is the empty string
\* (`"answer": result.get("answer", "")`)
EmptyAnswer == "empty answer"

\* MCPSpectraRagController.run, after process_user_query has returned result:
\* `if result.get("vector_db_ready")`, `elif result.get("answer")`,
\* `elif result.get("error"): return result`,
\* `else: return {"error": "Unknown controller result", **result}`
\* (the keys of the dict it returns)
run(result) ==
    IF "vector_db_ready" \in result.keys /\ vector_db_ready(result.value)
        THEN {"vector_db_ready", "message", "trace_id", "message_history"}
    ELSE IF "answer" \in result.keys /\ result.value # EmptyAnswer
        THEN {"answer", "source_context", "trace_id", "message_history"}
    ELSE IF "error" \in result.keys /\ result.error # ""
        THEN result.keys
    ELSE {"error"} \cup result.keys

NextAnswer ==
    \/ NextTurn
    \/ \E c \in DOMAIN calls :
          /\ calls[c].message.receiver \in {Receiver("llm"), Receiver("general")}
          /\ Reply(c, EmptyAnswer)

SpecAnswer == Init /\ [][NextAnswer]_vars

\* C39: MCPSpectraRagController.run returns a result with the key error if and
\* only if the result of the coordinator for that turn has the key error; a turn
\* whose stage succeeded, also with an empty answer text, is never reported as
\* an error.
C39_ErrorIffCoordinatorError ==
    \A t \in DOMAIN turns :
        turns[t].pc = "done" =>
            ("error" \in run(turns[t].result) <=> "error" \in turns[t].result.keys)
\* the direction that holds: an error of the coordinator is an error of run
C39_ErrorIsKept ==
    \A t \in DOMAIN turns :
        turns[t].pc = "done" /\ "error" \in turns[t].result.keys =>
            "error" \in run(turns[t].result)
=============================================================================
